---- MODULE Spec2Model ----
(***************************************************************************)
(* A model of the resume/job matching backend (src/backend): the skill     *)
(* normalizer, the score calculator, the evaluation orchestrator and the   *)
(* request handlers that own the job store, the retrieval index, the       *)
(* candidate profiles and the evaluation cache.                            *)
(*                                                                         *)
(* Strings are TLA+ strings; str.lower(), str.strip() and startswith are   *)
(* computed character by character.  Scores are exact: a float score is a  *)
(* rational [num, den], a score rounded to two decimals is an integer      *)
(* number of hundredths.                                                   *)
(***************************************************************************)
EXTENDS Integers, Sequences, FiniteSets, TLC

VARIABLES
    job_descriptions,    \* AppState.job_descriptions : job_id -> JobDescriptionInput
    evaluation_cache,    \* AppState.evaluation_cache : cache key -> EvaluationResponse
    candidate_profiles,  \* AppState.candidate_profiles : job_id -> candidate_id -> profile
    collections,         \* the vector store: collection name -> list of chunk metadata
    response,            \* what the last request handler answered
    requests,            \* the number of requests served
    hash_seed,           \* the process's string hash seed (orders the iteration of a set)
    call                 \* the last call of a library function: its arguments and result

appVars == <<job_descriptions, evaluation_cache, candidate_profiles, collections, response,
             requests>>
vars == <<job_descriptions, evaluation_cache, candidate_profiles, collections, response,
          requests, hash_seed, call>>

(***************************************************************************)
(* Python strings                                                          *)
(***************************************************************************)
UpperCaseLetters == "ABCDEFGHIJKLMNOPQRSTUVWXYZ"
LowerCaseLetters == "abcdefghijklmnopqrstuvwxyz"

CharAt(s, i) == SubSeq(s, i, i)

UpperToLower ==
    [c \in {CharAt(UpperCaseLetters, i) : i \in 1..Len(UpperCaseLetters)} |->
        CharAt(LowerCaseLetters,
               CHOOSE i \in 1..Len(UpperCaseLetters) : CharAt(UpperCaseLetters, i) = c)]

LowerToUpper ==
    [c \in {CharAt(LowerCaseLetters, i) : i \in 1..Len(LowerCaseLetters)} |->
        CharAt(UpperCaseLetters,
               CHOOSE i \in 1..Len(LowerCaseLetters) : CharAt(LowerCaseLetters, i) = c)]

\* str.lower() of one character
LowerChar(c) == IF c \in DOMAIN UpperToLower THEN UpperToLower[c] ELSE c

UpperChar(c) == IF c \in DOMAIN LowerToUpper THEN LowerToUpper[c] ELSE c

RECURSIVE MapChars(_, _, _)
MapChars(s, i, toLower) ==
    IF i > Len(s) THEN ""
    ELSE (IF toLower THEN LowerChar(CharAt(s, i)) ELSE UpperChar(CharAt(s, i)))
         \o MapChars(s, i + 1, toLower)

\* str.lower()
Lower(s) == MapChars(s, 1, TRUE)

\* str.upper() (used only to build inputs)
Upper(s) == MapChars(s, 1, FALSE)

IsSpace(c) == c \in {" ", "\t", "\n", "\r"}

\* str.strip()
Strip(s) ==
    LET keep == {i \in 1..Len(s) : ~IsSpace(CharAt(s, i))}
    IN  IF keep = {} THEN ""
        ELSE SubSeq(s, CHOOSE i \in keep : \A j \in keep : i <= j,
                       CHOOSE i \in keep : \A j \in keep : i >= j)

\* str.startswith(prefix)
StartsWith(s, prefix) ==
    /\ Len(prefix) <= Len(s)
    /\ SubSeq(s, 1, Len(prefix)) = prefix

\* sep.join(list)
RECURSIVE Join(_, _)
Join(l, sep) ==
    IF l = <<>> THEN ""
    ELSE IF Len(l) = 1 THEN l[1]
    ELSE l[1] \o sep \o Join(Tail(l), sep)

\* the elements of a list, as Python's set(list)
Range(seq) == {seq[i] : i \in 1..Len(seq)}

RECURSIVE Enumerate(_)
Enumerate(S) ==
    IF S = {} THEN <<>>
    ELSE LET x == CHOOSE x \in S : TRUE IN <<x>> \o Enumerate(S \ {x})

Reverse(l) == [i \in 1..Len(l) |-> l[Len(l) + 1 - i]]

\* the hash seeds of the model: a set is iterated in some order under one seed,
\* and in the opposite order under the other
HashSeeds == {"seed-a", "seed-b"}

\* list(a_set): the order of the elements is the hash order
ListOf(S) == IF hash_seed = "seed-a" THEN Enumerate(S) ELSE Reverse(Enumerate(S))

(***************************************************************************)
(* config.py                                                               *)
(***************************************************************************)
SKILL_SYNONYMS ==
    ("js" :> "JavaScript") @@ ("javascript" :> "JavaScript") @@
    ("ts" :> "TypeScript") @@ ("typescript" :> "TypeScript") @@
    ("py" :> "Python") @@ ("python" :> "Python") @@
    ("react.js" :> "React") @@ ("reactjs" :> "React") @@ ("react" :> "React") @@
    ("node.js" :> "Node.js") @@ ("nodejs" :> "Node.js") @@ ("node" :> "Node.js") @@
    ("postgres" :> "PostgreSQL") @@ ("postgresql" :> "PostgreSQL") @@
    ("mongo" :> "MongoDB") @@ ("mongodb" :> "MongoDB") @@
    ("aws" :> "AWS") @@ ("amazon web services" :> "AWS") @@
    ("gcp" :> "Google Cloud Platform") @@ ("google cloud" :> "Google Cloud Platform") @@
    ("k8s" :> "Kubernetes") @@ ("kubernetes" :> "Kubernetes") @@
    ("docker" :> "Docker") @@
    ("ml" :> "Machine Learning") @@ ("machine learning" :> "Machine Learning") @@
    ("ai" :> "Artificial Intelligence") @@
    ("artificial intelligence" :> "Artificial Intelligence") @@
    ("dl" :> "Deep Learning") @@ ("deep learning" :> "Deep Learning") @@
    ("sql" :> "SQL") @@ ("mysql" :> "MySQL") @@
    ("c#" :> "C#") @@ ("csharp" :> "C#") @@
    ("c++" :> "C++") @@ ("cpp" :> "C++") @@
    ("golang" :> "Go") @@ ("go" :> "Go") @@
    ("tf" :> "TensorFlow") @@ ("tensorflow" :> "TensorFlow") @@
    ("pytorch" :> "PyTorch") @@
    ("vue.js" :> "Vue.js") @@ ("vuejs" :> "Vue.js") @@ ("vue" :> "Vue.js") @@
    ("angular.js" :> "Angular") @@ ("angularjs" :> "Angular") @@ ("angular" :> "Angular") @@
    ("java" :> "Java") @@
    ("spring" :> "Spring Framework") @@
    ("spring boot" :> "Spring Boot") @@ ("springboot" :> "Spring Boot") @@
    ("fastapi" :> "FastAPI") @@ ("flask" :> "Flask") @@ ("django" :> "Django") @@
    ("express" :> "Express.js") @@ ("expressjs" :> "Express.js") @@
    ("express.js" :> "Express.js") @@
    ("graphql" :> "GraphQL") @@
    ("rest" :> "REST API") @@ ("restful" :> "REST API") @@ ("rest api" :> "REST API") @@
    ("ci/cd" :> "CI/CD") @@ ("cicd" :> "CI/CD") @@
    ("git" :> "Git") @@ ("github" :> "GitHub") @@ ("gitlab" :> "GitLab") @@
    ("jenkins" :> "Jenkins") @@ ("terraform" :> "Terraform") @@ ("ansible" :> "Ansible") @@
    ("linux" :> "Linux") @@ ("unix" :> "Unix") @@ ("bash" :> "Bash") @@
    ("shell" :> "Shell Scripting") @@
    ("agile" :> "Agile") @@ ("scrum" :> "Scrum")

(***************************************************************************)
(* evaluation.py: SkillNormalizer                                          *)
(***************************************************************************)
\* SkillNormalizer.__init__: {k.lower(): v for k, v in SKILL_SYNONYMS.items()}
synonyms ==
    [kl \in {Lower(k) : k \in DOMAIN SKILL_SYNONYMS} |->
        SKILL_SYNONYMS[CHOOSE k \in DOMAIN SKILL_SYNONYMS : Lower(k) = kl]]

\* the lookup key forgets .strip()
normalize_NoStripKey(skill) ==
    LET skill_lower == Lower(skill)
    IN  IF skill_lower \in DOMAIN synonyms THEN synonyms[skill_lower] ELSE Strip(skill)

\* SkillNormalizer.normalize
normalize(skill) ==
    LET skill_lower == Strip(Lower(skill))
    IN  IF skill_lower \in DOMAIN synonyms THEN synonyms[skill_lower] ELSE Strip(skill)

\* SkillNormalizer.normalize_list, before list(): the set it builds
normalize_list_set(skills) == {normalize(skills[i]) : i \in 1..Len(skills)}

\* SkillNormalizer.normalize_list
normalize_list(skills) == ListOf(normalize_list_set(skills))

(***************************************************************************)
(* Exact arithmetic for Python floats                                      *)
(***************************************************************************)
Rat(n, d) == [num |-> n, den |-> d]
RAdd(a, b) == [num |-> a.num * b.den + b.num * a.den, den |-> a.den * b.den]
RSub(a, b) == [num |-> a.num * b.den - b.num * a.den, den |-> a.den * b.den]
RLeq(a, b) == a.num * b.den <= b.num * a.den
REq(a, b) == a.num * b.den = b.num * a.den
RMax(a, b) == IF RLeq(a, b) THEN b ELSE a
RMin(a, b) == IF RLeq(a, b) THEN a ELSE b

Abs(n) == IF n < 0 THEN -n ELSE n

\* round(x, 2), in hundredths: the nearest hundredth; when x lies exactly halfway
\* between two hundredths the float's representation error decides, so both
\* neighbours are possible results
Round2(x) ==
    LET lo == (100 * x.num) \div x.den
    IN  {h \in {lo, lo + 1} : 2 * Abs(100 * x.num - h * x.den) <= x.den}

(***************************************************************************)
(* config.py: weights and thresholds, in hundredths                        *)
(***************************************************************************)
WEIGHT_SKILLS == 50
WEIGHT_EXPERIENCE == 30
WEIGHT_EDUCATION == 20
THRESHOLD_STRONG_FIT == 7500
THRESHOLD_PARTIAL_FIT == 5000
MAX_RESUMES_PER_JD == 50
TOP_K_CHUNKS == 5

(***************************************************************************)
(* evaluation.py: ScoreCalculator                                          *)
(***************************************************************************)
NormalizedSet(skills) == {normalize(skills[i]) : i \in 1..Len(skills)}

\* calculate_skills_score, line 144
mandatory_matched(matched_skills, mandatory_skills) ==
    Cardinality(NormalizedSet(matched_skills) \cap NormalizedSet(mandatory_skills))

\* calculate_skills_score, line 145
optional_matched(matched_skills, optional_skills) ==
    Cardinality(NormalizedSet(matched_skills) \cap NormalizedSet(optional_skills))

\* calculate_skills_score, line 162
missing_mandatory(matched_skills, mandatory_skills) ==
    Len(mandatory_skills) - mandatory_matched(matched_skills, mandatory_skills)

\* the mandatory credit is scaled by the missing share instead of the matched share
calculate_skills_score_MissingShare(matched_skills, missing_skills, mandatory_skills, optional_skills) ==
    IF mandatory_skills = <<>> /\ optional_skills = <<>> THEN Rat(50, 1)
    ELSE
        LET total_mandatory == Len(mandatory_skills)
            total_optional == Len(optional_skills)
            mm == mandatory_matched(matched_skills, mandatory_skills)
            om == optional_matched(matched_skills, optional_skills)
            mandatory_score == IF total_mandatory > 0
                               THEN Rat((total_mandatory - mm) * 70, total_mandatory)
                               ELSE Rat(70, 1)
            optional_score == IF total_optional > 0
                              THEN Rat(om * 30, total_optional)
                              ELSE Rat(30, 1)
            penalty == Rat(missing_mandatory(matched_skills, mandatory_skills) * 10, 1)
            final_score == RMax(Rat(0, 1), RSub(RAdd(mandatory_score, optional_score), penalty))
        IN  RMin(Rat(100, 1), final_score)

\* the penalty for missing mandatory skills is 5 points instead of 10
calculate_skills_score_HalfPenalty(matched_skills, missing_skills, mandatory_skills, optional_skills) ==
    IF mandatory_skills = <<>> /\ optional_skills = <<>> THEN Rat(50, 1)
    ELSE
        LET total_mandatory == Len(mandatory_skills)
            total_optional == Len(optional_skills)
            mm == mandatory_matched(matched_skills, mandatory_skills)
            om == optional_matched(matched_skills, optional_skills)
            mandatory_score == IF total_mandatory > 0
                               THEN Rat(mm * 70, total_mandatory)
                               ELSE Rat(70, 1)
            optional_score == IF total_optional > 0
                              THEN Rat(om * 30, total_optional)
                              ELSE Rat(30, 1)
            penalty == Rat(missing_mandatory(matched_skills, mandatory_skills) * 5, 1)
            final_score == RMax(Rat(0, 1), RSub(RAdd(mandatory_score, optional_score), penalty))
        IN  RMin(Rat(100, 1), final_score)

\* ScoreCalculator.calculate_skills_score (missing_skills is not read)
calculate_skills_score(matched_skills, missing_skills, mandatory_skills, optional_skills) ==
    IF mandatory_skills = <<>> /\ optional_skills = <<>> THEN Rat(50, 1)
    ELSE
        LET total_mandatory == Len(mandatory_skills)
            total_optional == Len(optional_skills)
            mm == mandatory_matched(matched_skills, mandatory_skills)
            om == optional_matched(matched_skills, optional_skills)
            mandatory_score == IF total_mandatory > 0
                               THEN Rat(mm * 70, total_mandatory)
                               ELSE Rat(70, 1)
            optional_score == IF total_optional > 0
                              THEN Rat(om * 30, total_optional)
                              ELSE Rat(30, 1)
            penalty == Rat(missing_mandatory(matched_skills, mandatory_skills) * 10, 1)
            final_score == RMax(Rat(0, 1), RSub(RAdd(mandatory_score, optional_score), penalty))
        IN  RMin(Rat(100, 1), final_score)

\* the education weight is 0.30 instead of 0.20
calculate_final_score_WrongWeight(scores) ==
    Round2(Rat(scores.skills_score * WEIGHT_SKILLS
               + scores.experience_score * WEIGHT_EXPERIENCE
               + scores.education_score * WEIGHT_EXPERIENCE, 10000))

\* ScoreCalculator.calculate_final_score: sub-scores in hundredths, weights in
\* hundredths, the result rounded to hundredths
calculate_final_score(scores) ==
    Round2(Rat(scores.skills_score * WEIGHT_SKILLS
               + scores.experience_score * WEIGHT_EXPERIENCE
               + scores.education_score * WEIGHT_EDUCATION, 10000))

\* the thresholds are compared with > instead of >=
determine_recommendation_Strict(final_score) ==
    IF final_score > THRESHOLD_STRONG_FIT THEN "Strong Fit"
    ELSE IF final_score > THRESHOLD_PARTIAL_FIT THEN "Partial Fit"
    ELSE "Weak Fit"

\* ScoreCalculator.determine_recommendation
determine_recommendation(final_score) ==
    IF final_score >= THRESHOLD_STRONG_FIT THEN "Strong Fit"
    ELSE IF final_score >= THRESHOLD_PARTIAL_FIT THEN "Partial Fit"
    ELSE "Weak Fit"

(***************************************************************************)
(* JSON values of the inference collaborator's judgment                    *)
(***************************************************************************)
Num(n) == [t |-> "num", v |-> n]
List(l) == [t |-> "list", v |-> l]
Text(s) == [t |-> "str", v |-> s]
Null == [t |-> "null"]
Missing == [t |-> "missing"]

\* dict.get(key, default)
DictGet(value, default) == IF value.t = "missing" THEN default ELSE value

Raise(error) == [ok |-> FALSE, error |-> error]

(***************************************************************************)
(* rag_utils.py: RAGProcessor                                              *)
(***************************************************************************)
\* str.endswith(suffix)
EndsWith(s, suffix) ==
    /\ Len(suffix) <= Len(s)
    /\ SubSeq(s, Len(s) - Len(suffix) + 1, Len(s)) = suffix

\* the fence marker, three grave accents; a TLA+ string cannot hold a grave
\* accent, which is written ^ in the texts of the model
Fence == "^^^"

\* re.sub(r'^```json?\n?', '', response): the fence marker and "jso", then an
\* optional "n" and an optional newline
RemoveOpeningFence(text) ==
    LET opening == Fence \o "jso"
        skip(t, prefix) == IF StartsWith(t, prefix) THEN SubSeq(t, Len(prefix) + 1, Len(t))
                           ELSE t
    IN  IF StartsWith(text, opening) THEN skip(skip(skip(text, opening), "n"), "\n")
        ELSE text

\* re.sub(r'\n?```$', '', response), on a text without a trailing newline
RemoveClosingFence(text) ==
    LET cut(t, suffix) == IF EndsWith(t, suffix) THEN SubSeq(t, 1, Len(t) - Len(suffix))
                          ELSE t
    IN  IF EndsWith(text, Fence) THEN cut(cut(text, Fence), "\n") ELSE text

\* evaluate_with_llm, lines 443-446
StripFences(text) ==
    IF StartsWith(text, Fence)
    THEN RemoveClosingFence(RemoveOpeningFence(text))
    ELSE text

\* a judgment object with the given keys; a key that the object lacks is Missing
JudgmentObject(matched, missing, skills, experience, education, weaknesses, notes) ==
    [matched_skills |-> matched, missing_skills |-> missing,
     skills_score |-> skills, experience_score |-> experience, education_score |-> education,
     weaknesses |-> weaknesses, confidence_notes |-> notes]

\* the JSON documents of the model and the values json.loads returns for them:
\* an object is the record of its keys, any other value is a tagged value
JsonDocuments ==
    ("{\"matched_skills\": [\"Python\"], \"missing_skills\": [\"FastAPI\"], \"skills_score\": 80, \"experience_score\": 70, \"education_score\": 60, \"weaknesses\": [], \"confidence_notes\": \"ok\"}"
        :> JudgmentObject(List(<<"Python">>), List(<<"FastAPI">>), Num(80), Num(70), Num(60),
                          List(<<>>), Text("ok")))
    @@ ("{}" :> JudgmentObject(Missing, Missing, Missing, Missing, Missing, Missing, Missing))
    @@ ("{\"matched_skills\": null, \"missing_skills\": [], \"skills_score\": 80, \"experience_score\": 70, \"education_score\": 60}"
        :> JudgmentObject(Null, List(<<>>), Num(80), Num(70), Num(60), Missing, Missing))
    @@ ("{\"matched_skills\": \"Python\", \"missing_skills\": [], \"skills_score\": \"high\", \"experience_score\": 70, \"education_score\": 60}"
        :> JudgmentObject(Text("Python"), List(<<>>), Text("high"), Num(70), Num(60),
                          Missing, Missing))
    @@ ("[]" :> List(<<>>))
    @@ ("7" :> Num(7))
    @@ ("null" :> Null)
    @@ ("\"Strong Fit\"" :> Text("Strong Fit"))

\* json.loads: whitespace around the document is allowed; a text that is no
\* JSON document raises JSONDecodeError
json_loads(text) ==
    IF Strip(text) \in DOMAIN JsonDocuments
    THEN [ok |-> TRUE, value |-> JsonDocuments[Strip(text)]]
    ELSE Raise("JSONDecodeError")

\* the parse fallback that reports no mandatory skill as missing
ParseFallback_NothingMissing(mandatory_skills) ==
    [matched_skills |-> List(<<>>), missing_skills |-> List(<<>>),
     skills_score |-> Num(0), experience_score |-> Num(0), education_score |-> Num(0),
     weaknesses |-> List(<<"Resume parsing failed">>),
     confidence_notes |-> Text("Evaluation failed due to parsing error")]

\* evaluate_with_llm, lines 451-464: except json.JSONDecodeError
ParseFallback(mandatory_skills) ==
    [matched_skills |-> List(<<>>), missing_skills |-> List(mandatory_skills),
     skills_score |-> Num(0), experience_score |-> Num(0), education_score |-> Num(0),
     weaknesses |-> List(<<"Resume parsing failed">>),
     confidence_notes |-> Text("Evaluation failed due to parsing error")]

\* the fallback that gives full marks for experience and education
ExceptionFallback_FullMarks(mandatory_skills) ==
    [matched_skills |-> List(<<>>), missing_skills |-> List(mandatory_skills),
     skills_score |-> Num(0), experience_score |-> Num(100), education_score |-> Num(100),
     weaknesses |-> List(<<"Evaluation failed">>),
     confidence_notes |-> Text("LLM evaluation failed")]

\* evaluate_with_llm, lines 465-477: except Exception
ExceptionFallback(mandatory_skills) ==
    [matched_skills |-> List(<<>>), missing_skills |-> List(mandatory_skills),
     skills_score |-> Num(0), experience_score |-> Num(0), education_score |-> Num(0),
     weaknesses |-> List(<<"Evaluation failed">>),
     confidence_notes |-> Text("LLM evaluation failed")]

\* RAGProcessor.evaluate_with_llm: the collaborator's outcome is a transport
\* error, a message content (a text or null), or, with the text left abstract,
\* a text that is not JSON or the JSON object the text stands for
evaluate_with_llm(llm, mandatory_skills) ==
    IF llm.kind = "transport_error" THEN ExceptionFallback(mandatory_skills)
    ELSE IF llm.kind = "content" THEN
        IF llm.content.t # "str" THEN ExceptionFallback(mandatory_skills)
        ELSE LET evaluation == json_loads(StripFences(Strip(llm.content.v)))
             IN  IF evaluation.ok THEN evaluation.value ELSE ParseFallback(mandatory_skills)
    ELSE IF llm.kind = "not_json" THEN ParseFallback(mandatory_skills)
    ELSE llm.value

\* RAGProcessor.get_all_candidates_for_job: the distinct candidates of the job's
\* collection, in the order their first chunk was stored
RECURSIVE DistinctCandidates(_, _)
DistinctCandidates(metadatas, seen) ==
    IF metadatas = <<>> THEN <<>>
    ELSE LET m == Head(metadatas)
         IN  IF m.candidate_id = "" \/ m.candidate_id \in seen
             THEN DistinctCandidates(Tail(metadatas), seen)
             ELSE <<[candidate_id |-> m.candidate_id, candidate_name |-> m.candidate_name]>>
                  \o DistinctCandidates(Tail(metadatas), seen \cup {m.candidate_id})

(***************************************************************************)
(* evaluation.py: CandidateEvaluator                                       *)
(***************************************************************************)
\* _evaluate_single_candidate, lines 276-289: the judgment used without context
NoContextJudgment(mandatory_skills) ==
    [matched_skills |-> List(<<>>), missing_skills |-> List(mandatory_skills),
     skills_score |-> Num(0), experience_score |-> Num(0), education_score |-> Num(0),
     weaknesses |-> List(<<"No resume data found">>),
     confidence_notes |-> Text("Unable to evaluate - no resume content retrieved")]

\* schemas.ScoreBreakdown: Field(ge=0, le=100), in hundredths
ValidScore(h) == 0 <= h /\ h <= 10000

\* _evaluate_single_candidate, lines 296-346, once the matched skills are
\* normalized: the evaluations it can build, or the exception it raises
BuildEvaluation(candidate, llm_evaluation, matched_skills, mandatory_skills, optional_skills) ==
    LET matched_set == {Lower(matched_skills[i]) : i \in 1..Len(matched_skills)}
        missing_skills == SelectSeq(mandatory_skills, LAMBDA s : Lower(s) \notin matched_set)
        llm_skills == DictGet(llm_evaluation.skills_score, Num(0))
        llm_experience == DictGet(llm_evaluation.experience_score, Num(0))
        llm_education == DictGet(llm_evaluation.education_score, Num(0))
    IN  IF llm_skills.t # "num" \/ llm_experience.t # "num" \/ llm_education.t # "num"
        THEN {Raise("TypeError")}
        ELSE
            LET skills_score ==
                    IF matched_skills # <<>> \/ mandatory_skills # <<>>
                    THEN calculate_skills_score(matched_skills, missing_skills,
                                                mandatory_skills, optional_skills)
                    ELSE Rat(llm_skills.v, 1)
            IN  UNION {
                    LET scores == [skills_score |-> s,
                                   experience_score |-> 100 * llm_experience.v,
                                   education_score |-> 100 * llm_education.v]
                    IN  IF ~(ValidScore(scores.skills_score)
                             /\ ValidScore(scores.experience_score)
                             /\ ValidScore(scores.education_score))
                        THEN {Raise("ValidationError")}
                        ELSE {[ok |-> TRUE,
                               evaluation |->
                                  [candidate_id |-> candidate.candidate_id,
                                   candidate_name |-> candidate.candidate_name,
                                   scores |-> [skills_score |-> scores.skills_score,
                                               experience_score |-> scores.experience_score,
                                               education_score |-> scores.education_score,
                                               final_score |-> f],
                                   matched_skills |-> matched_skills,
                                   missing_skills |-> missing_skills,
                                   weaknesses |-> DictGet(llm_evaluation.weaknesses, List(<<>>)).v,
                                   overall_recommendation |-> determine_recommendation(f),
                                   confidence_notes |->
                                       DictGet(llm_evaluation.confidence_notes, Text("")).v]]
                              : f \in calculate_final_score(scores)}
                    : s \in Round2(skills_score)}

\* CandidateEvaluator._evaluate_single_candidate: outcome is what the retrieval
\* index (context) and the inference service (llm) answer for this candidate
\* the inference service is asked whatever the context is
evaluate_single_candidate_AlwaysCalls(candidate, mandatory_skills, optional_skills, outcome) ==
    LET llm_evaluation == evaluate_with_llm(outcome.llm, mandatory_skills)
        reported == DictGet(llm_evaluation.matched_skills, List(<<>>))
        results == IF reported.t # "list" THEN {Raise("TypeError")}
                   ELSE BuildEvaluation(candidate, llm_evaluation, normalize_list(reported.v),
                                        mandatory_skills, optional_skills)
    IN  {r @@ [llm_called |-> TRUE] : r \in results}

\* llm_called tells whether evaluate_with_llm was called (line 268, `if context:`)
evaluate_single_candidate(candidate, mandatory_skills, optional_skills, outcome) ==
    LET llm_called == outcome.context # ""
        llm_evaluation == IF llm_called
                          THEN evaluate_with_llm(outcome.llm, mandatory_skills)
                          ELSE NoContextJudgment(mandatory_skills)
        reported == DictGet(llm_evaluation.matched_skills, List(<<>>))
        results == IF reported.t # "list" THEN {Raise("TypeError")}
                   ELSE BuildEvaluation(candidate, llm_evaluation, normalize_list(reported.v),
                                        mandatory_skills, optional_skills)
    IN  {r @@ [llm_called |-> llm_called] : r \in results}

\* ties keep the reverse of the upstream order
RECURSIVE InsertByScore_TiesFirst(_, _)
InsertByScore_TiesFirst(sorted, e) ==
    IF sorted = <<>> THEN <<e>>
    ELSE IF Head(sorted).scores.final_score > e.scores.final_score
         THEN <<Head(sorted)>> \o InsertByScore_TiesFirst(Tail(sorted), e)
         ELSE <<e>> \o sorted

\* list.sort(key=final_score, reverse=True) is stable: an element goes after
\* every element already placed whose score is greater or equal
RECURSIVE InsertByScore(_, _)
InsertByScore(sorted, e) ==
    IF sorted = <<>> THEN <<e>>
    ELSE IF Head(sorted).scores.final_score >= e.scores.final_score
         THEN <<Head(sorted)>> \o InsertByScore(Tail(sorted), e)
         ELSE <<e>> \o sorted

\* evaluate_candidates, line 241
RECURSIVE SortByFinalScore(_, _)
SortByFinalScore(evaluations, n) ==
    IF n = 0 THEN <<>>
    ELSE InsertByScore(SortByFinalScore(evaluations, n - 1), evaluations[n])

\* evaluate_candidates, lines 228-238: the loop over the first n candidates;
\* an exception in one candidate leaves the loop. llm_calls lists the
\* candidates for whom the inference service was asked
RECURSIVE EvaluateLoop(_, _, _, _, _)
EvaluateLoop(candidates, n, mandatory_skills, optional_skills, outcomes) ==
    IF n = 0 THEN {[ok |-> TRUE, evaluations |-> <<>>, llm_calls |-> <<>>]}
    ELSE UNION {
            IF ~before.ok THEN {before}
            ELSE {LET llm_calls == IF r.llm_called
                                   THEN Append(before.llm_calls, candidates[n].candidate_id)
                                   ELSE before.llm_calls
                  IN  IF r.ok
                      THEN [ok |-> TRUE, llm_calls |-> llm_calls,
                            evaluations |-> Append(before.evaluations, r.evaluation)]
                      ELSE [ok |-> FALSE, error |-> r.error, llm_calls |-> llm_calls]
                  : r \in evaluate_single_candidate(candidates[n], mandatory_skills,
                              optional_skills, outcomes[candidates[n].candidate_id])}
            : before \in EvaluateLoop(candidates, n - 1, mandatory_skills, optional_skills,
                                      outcomes)}

Min(a, b) == IF a <= b THEN a ELSE b

\* evaluate_candidates, lines 211-219: the candidates that are evaluated
SelectedCandidates(stored, candidate_ids) ==
    LET filtered == IF candidate_ids # <<>>
                    THEN SelectSeq(stored, LAMBDA c : c.candidate_id \in Range(candidate_ids))
                    ELSE stored
    IN  SubSeq(filtered, 1, Min(Len(filtered), MAX_RESUMES_PER_JD))

\* CandidateEvaluator.evaluate_candidates: stored is what get_all_candidates_for_job
\* returns; the results it can return, or the exception it raises
evaluate_candidates(jd, stored, candidate_ids, outcomes) ==
    LET mandatory_skills == normalize_list(jd.mandatory_skills)
        optional_skills == normalize_list(jd.optional_skills)
        candidates == SelectedCandidates(stored, candidate_ids)
    IN  {IF r.ok
         THEN [ok |-> TRUE, llm_calls |-> r.llm_calls,
               evaluations |-> SortByFinalScore(r.evaluations, Len(r.evaluations))]
         ELSE r
         : r \in EvaluateLoop(candidates, Len(candidates), mandatory_skills,
                              optional_skills, outcomes)}

(***************************************************************************)
(* rag_utils.py: TextChunker                                               *)
(***************************************************************************)
\* estimate_tokens
estimate_tokens(text) == Len(text) \div 4

\* the characters that _clean_text keeps: \w, \s and .,;:!?@#$%&*()-+=/'"
IsKeptChar(c) ==
    LET kept == LowerCaseLetters \o UpperCaseLetters \o "0123456789_"
                \o ".,;:!?@#$%&*()-+=/'\""
    IN  IsSpace(c) \/ \E i \in 1..Len(kept) : c = CharAt(kept, i)

\* re.sub(r'\s+', ' ', text), from position i on
RECURSIVE CollapseWhitespace(_, _)
CollapseWhitespace(text, i) ==
    IF i > Len(text) THEN ""
    ELSE IF ~IsSpace(CharAt(text, i)) THEN CharAt(text, i) \o CollapseWhitespace(text, i + 1)
    ELSE IF i > 1 /\ IsSpace(CharAt(text, i - 1)) THEN CollapseWhitespace(text, i + 1)
    ELSE " " \o CollapseWhitespace(text, i + 1)

\* re.sub(r'[^\w\s.,;:!?@#$%&*()\-+=/\'"]+', '', text), from position i on
RECURSIVE RemoveSpecial(_, _)
RemoveSpecial(text, i) ==
    IF i > Len(text) THEN ""
    ELSE LET c == CharAt(text, i)
         IN  (IF IsKeptChar(c) THEN c ELSE "")
             \o RemoveSpecial(text, i + 1)

\* _clean_text
_clean_text(text) == Strip(RemoveSpecial(CollapseWhitespace(text, 1), 1))

\* the first position from i on that holds no whitespace
RECURSIVE SkipWhitespace(_, _)
SkipWhitespace(text, i) ==
    IF i <= Len(text) /\ IsSpace(CharAt(text, i)) THEN SkipWhitespace(text, i + 1) ELSE i

\* re.split(r'(?<=[.!?])\s+', text), from position i on, with the piece read so far
RECURSIVE SplitAfterSentenceEnd(_, _, _)
SplitAfterSentenceEnd(text, i, piece) ==
    IF i > Len(text) THEN <<piece>>
    ELSE IF IsSpace(CharAt(text, i)) /\ i > 1 /\ CharAt(text, i - 1) \in {".", "!", "?"}
    THEN <<piece>> \o SplitAfterSentenceEnd(text, SkipWhitespace(text, i), "")
    ELSE SplitAfterSentenceEnd(text, i + 1, piece \o CharAt(text, i))

\* _split_into_sentences
_split_into_sentences(text) ==
    LET pieces == SplitAfterSentenceEnd(text, 1, "")
        stripped == [i \in 1..Len(pieces) |-> Strip(pieces[i])]
    IN  SelectSeq(stripped, LAMBDA piece : piece # "")

\* the summed tokens of the sentences at the positions of a chunk
RECURSIVE ChunkTokens(_, _)
ChunkTokens(tokens, chunk) ==
    IF chunk = <<>> THEN 0 ELSE tokens[Head(chunk)] + ChunkTokens(tokens, Tail(chunk))

\* the overlap loop keeping every sentence of the chunk
OverlapLength_KeepsAll(tokens, current_chunk, overlap, kept, overlap_size) ==
    Len(current_chunk)

\* chunk_text, lines 48-56: the number of trailing sentences of current_chunk
\* that are kept as the overlap
RECURSIVE OverlapLength(_, _, _, _, _)
OverlapLength(tokens, current_chunk, overlap, kept, overlap_size) ==
    IF kept = Len(current_chunk) THEN kept
    ELSE LET s_tokens == tokens[current_chunk[Len(current_chunk) - kept]]
         IN  IF overlap_size + s_tokens <= overlap
             THEN OverlapLength(tokens, current_chunk, overlap, kept + 1,
                                overlap_size + s_tokens)
             ELSE kept

\* the loop that forgets the chunk left over after the last sentence
RECURSIVE ChunkLoop_DropsRemainder(_, _, _, _, _, _, _)
ChunkLoop_DropsRemainder(tokens, i, chunks, current_chunk, current_size, chunk_size, overlap) ==
    IF i > Len(tokens) THEN chunks
    ELSE IF current_size + tokens[i] > chunk_size /\ current_chunk # <<>>
    THEN LET kept == OverlapLength(tokens, current_chunk, overlap, 0, 0)
             overlap_sentences ==
                 SubSeq(current_chunk, Len(current_chunk) - kept + 1, Len(current_chunk))
             overlap_size == ChunkTokens(tokens, overlap_sentences)
         IN  ChunkLoop_DropsRemainder(tokens, i + 1, Append(chunks, current_chunk),
                       Append(overlap_sentences, i), overlap_size + tokens[i],
                       chunk_size, overlap)
    ELSE ChunkLoop_DropsRemainder(tokens, i + 1, chunks, Append(current_chunk, i),
                   current_size + tokens[i], chunk_size, overlap)

\* chunk_text, lines 36-66: the loop over the sentences, from sentence i on; a
\* chunk is the list of the positions of its sentences
RECURSIVE ChunkLoop(_, _, _, _, _, _, _)
ChunkLoop(tokens, i, chunks, current_chunk, current_size, chunk_size, overlap) ==
    IF i > Len(tokens)
    THEN IF current_chunk # <<>> THEN Append(chunks, current_chunk) ELSE chunks
    ELSE IF current_size + tokens[i] > chunk_size /\ current_chunk # <<>>
    THEN LET kept == OverlapLength(tokens, current_chunk, overlap, 0, 0)
             overlap_sentences ==
                 SubSeq(current_chunk, Len(current_chunk) - kept + 1, Len(current_chunk))
             overlap_size == ChunkTokens(tokens, overlap_sentences)
         IN  ChunkLoop(tokens, i + 1, Append(chunks, current_chunk),
                       Append(overlap_sentences, i), overlap_size + tokens[i],
                       chunk_size, overlap)
    ELSE ChunkLoop(tokens, i + 1, chunks, Append(current_chunk, i),
                   current_size + tokens[i], chunk_size, overlap)

\* chunk_text of a TextChunker(chunk_size, overlap): the cleaned text, its
\* sentences, the chunks as sentence positions and the chunks returned
chunk_text(text, chunk_size, overlap) ==
    LET cleaned == _clean_text(text)
        sentences == _split_into_sentences(cleaned)
        tokens == [i \in 1..Len(sentences) |-> estimate_tokens(sentences[i])]
        chunks == ChunkLoop(tokens, 1, <<>>, <<>>, 0, chunk_size, overlap)
    IN  [cleaned |-> cleaned, sentences |-> sentences, tokens |-> tokens,
         chunk_sentences |-> chunks,
         ret |-> [j \in 1..Len(chunks) |->
                     Join([k \in 1..Len(chunks[j]) |-> sentences[chunks[j][k]]], " ")]]

(***************************************************************************)
(* main.py: the skill match of the candidate detail endpoint               *)
(***************************************************************************)
\* Python's `sub in s` on two strings
Contains(s, sub) ==
    \E i \in 0..(Len(s) - Len(sub)) : SubSeq(s, i + 1, i + Len(sub)) = sub

\* _match_skills, lines 474-489: an exact match of the lower-cased, stripped
\* strings, or else either string occurring inside the other
SkillFound(job_skill_lower, candidate_skills_lower) ==
    \/ job_skill_lower \in Range(candidate_skills_lower)
    \/ \E i \in 1..Len(candidate_skills_lower) :
          \/ Contains(candidate_skills_lower[i], job_skill_lower)
          \/ Contains(job_skill_lower, candidate_skills_lower[i])

\* _match_skills: the possible results (the percentage is rounded to two decimals)
_match_skills(candidate_skills, job_skills) ==
    LET candidate_skills_lower ==
            [i \in 1..Len(candidate_skills) |-> Strip(Lower(candidate_skills[i]))]
        found(job_skill) == SkillFound(Strip(Lower(job_skill)), candidate_skills_lower)
        matched == SelectSeq(job_skills, LAMBDA job_skill : found(job_skill))
        missing == SelectSeq(job_skills, LAMBDA job_skill : ~found(job_skill))
        percentages == IF job_skills = <<>> THEN {0}
                       ELSE Round2(Rat(100 * Len(matched), Len(job_skills)))
    IN  {[matched_skills |-> matched, missing_skills |-> missing, match_percentage |-> p] :
            p \in percentages}

(***************************************************************************)
(* evaluation.py: RoleLevelInferrer                                        *)
(***************************************************************************)
\* LEVEL_INDICATORS, in the dict's insertion order
LEVEL_INDICATORS ==
    <<[level |-> "Intern",
       keywords |-> <<"intern", "internship", "trainee", "student", "entry-level">>,
       experience_years |-> <<0, 1>>],
      [level |-> "Junior",
       keywords |-> <<"junior", "associate", "graduate", "entry level", "0-2 years",
                      "1-2 years", "fresher">>,
       experience_years |-> <<0, 2>>],
      [level |-> "Mid",
       keywords |-> <<"mid-level", "mid level", "intermediate", "3-5 years", "2-4 years",
                      "3+ years">>,
       experience_years |-> <<2, 5>>],
      [level |-> "Senior",
       keywords |-> <<"senior", "sr.", "experienced", "5+ years", "5-8 years", "7+ years",
                      "expert">>,
       experience_years |-> <<5, 10>>],
      [level |-> "Lead",
       keywords |-> <<"lead", "principal", "staff", "architect", "manager", "head",
                      "director", "10+ years">>,
       experience_years |-> <<8, 20>>]>>

\* infer_role_level, lines 55-66: the score without the experience check
LevelScore_NoExperienceBonus(indicators, jd) ==
    LET jd_text == Lower(jd.title \o " " \o jd.description)
    IN  2 * Cardinality({i \in 1..Len(indicators.keywords) :
                            Contains(jd_text, indicators.keywords[i])})

\* infer_role_level, lines 55-66: the score of one level
LevelScore(indicators, jd) ==
    LET jd_text == Lower(jd.title \o " " \o jd.description)
        years == jd.min_experience_years
    IN  2 * Cardinality({i \in 1..Len(indicators.keywords) :
                            Contains(jd_text, indicators.keywords[i])})
        + (IF /\ years.t = "num"
              /\ indicators.experience_years[1] <= years.v
              /\ years.v <= indicators.experience_years[2]
           THEN 3 ELSE 0)

\* infer_role_level with max() returning the last of the equal highest scores
infer_role_level_LastMax(jd) ==
    LET levels == 1..Len(LEVEL_INDICATORS)
        level_scores == [i \in levels |-> LevelScore(LEVEL_INDICATORS[i], jd)]
        last == CHOOSE i \in levels :
                    /\ \A j \in levels : level_scores[j] <= level_scores[i]
                    /\ \A j \in levels : j > i => level_scores[j] < level_scores[i]
    IN  IF \A i \in levels : level_scores[i] = 0 THEN "Mid"
        ELSE LEVEL_INDICATORS[last].level

\* infer_role_level: max(level_scores, key=level_scores.get) returns the first
\* key, in insertion order, that has the highest score
infer_role_level(jd) ==
    LET levels == 1..Len(LEVEL_INDICATORS)
        level_scores == [i \in levels |-> LevelScore(LEVEL_INDICATORS[i], jd)]
        first == CHOOSE i \in levels :
                    /\ \A j \in levels : level_scores[j] <= level_scores[i]
                    /\ \A j \in levels : j < i => level_scores[j] < level_scores[i]
    IN  IF \A i \in levels : level_scores[i] = 0 THEN "Mid"
        ELSE LEVEL_INDICATORS[first].level

(***************************************************************************)
(* config.py: Settings, and the calculator that reads it                   *)
(***************************************************************************)
\* config.py, lines 33-48 and 139: the class takes SCORING_WEIGHTS and
\* RECOMMENDATION_THRESHOLDS as they are written; the load checks nothing
Settings(configured) ==
    [ok |-> TRUE,
     SCORING_WEIGHTS |-> configured.SCORING_WEIGHTS,
     RECOMMENDATION_THRESHOLDS |-> configured.RECOMMENDATION_THRESHOLDS]

\* ScoreCalculator.__init__
ScoreCalculator(settings) ==
    [weights |-> settings.SCORING_WEIGHTS, thresholds |-> settings.RECOMMENDATION_THRESHOLDS]

(***************************************************************************)
(* Calls of the library functions                                          *)
(***************************************************************************)
Idle == [fn |-> "idle"]

\* unknown skill tokens, with letter-case and whitespace variants
UnknownTokens == {"Redis", "redis", "REDIS", " Redis ", "  kafka", "Kafka  ", "", " "}

\* every skill string normalize is called on: the table keys in lower, upper and
\* padded form, the canonical values, and unknown tokens
SkillInputs ==
    UNION {{k, Upper(k), " " \o k, Upper(k) \o "  "} : k \in DOMAIN SKILL_SYNONYMS}
    \cup {SKILL_SYNONYMS[k] : k \in DOMAIN SKILL_SYNONYMS}
    \cup {" " \o SKILL_SYNONYMS[k] \o " " : k \in DOMAIN SKILL_SYNONYMS}
    \cup UnknownTokens

\* bounds of the inputs
MaxListLen == 2
MaxMandatory == 3
MaxCandidates == 3

RECURSIVE SeqsUpTo(_, _)
SeqsUpTo(S, n) ==
    IF n = 0 THEN {<<>>}
    ELSE LET shorter == SeqsUpTo(S, n - 1)
         IN  shorter \cup {Append(l, x) : l \in {m \in shorter : Len(m) = n - 1}, x \in S}

NoDuplicates(l) == \A i, j \in 1..Len(l) : i # j => l[i] # l[j]

EmptyMap == [k \in {} |-> k]

\* ---- SkillNormalizer.normalize --------------------------------------------
CallNormalize ==
    /\ call = Idle
    /\ \E s \in SkillInputs :
          call' = [fn |-> "normalize", skill |-> s,
                   once |-> normalize(s), twice |-> normalize(normalize(s))]
    /\ UNCHANGED <<appVars, hash_seed>>

\* ---- SkillNormalizer.normalize_list ---------------------------------------
ListTokens == {"Redis", "redis", " redis", "JS", "js", "JavaScript", "Python"}

CallNormalizeList ==
    /\ call = Idle
    /\ \E skills \in SeqsUpTo(ListTokens, MaxListLen) :
          call' = [fn |-> "normalize_list", skills |-> skills, ret |-> normalize_list(skills)]
    /\ UNCHANGED <<appVars, hash_seed>>

\* ---- ScoreCalculator.calculate_skills_score ------------------------------
MandatoryTokens == {"Python", "FastAPI", "PostgreSQL", "redis"}
MandatoryLists == SeqsUpTo(MandatoryTokens, MaxMandatory)
OptionalLists == {<<>>, <<"Docker">>, <<"Docker", "AWS", "Redis">>}
MatchedLists ==
    {<<>>, <<"Python">>, <<"python", "FastAPI">>, <<"Redis">>, <<"Docker">>,
     <<"aws", "docker", "py">>}

SkillsScoreCall(matched, mandatory, optional) ==
    [fn |-> "calculate_skills_score",
     matched_skills |-> matched, mandatory_skills |-> mandatory, optional_skills |-> optional,
     ret |-> calculate_skills_score(matched, <<>>, mandatory, optional)]

CallSkillsScore ==
    /\ call = Idle
    /\ \E matched \in MatchedLists, mandatory \in MandatoryLists, optional \in OptionalLists :
          call' = SkillsScoreCall(matched, mandatory, optional)
    /\ UNCHANGED <<appVars, hash_seed>>

\* the same call again, with one more of the mandatory skills reported as matched
MatchOneMore ==
    /\ call.fn = "calculate_skills_score"
    /\ \E i \in 1..Len(call.mandatory_skills) :
          /\ call.mandatory_skills[i] \notin Range(call.matched_skills)
          /\ call' = SkillsScoreCall(Append(call.matched_skills, call.mandatory_skills[i]),
                                     call.mandatory_skills, call.optional_skills)
    /\ UNCHANGED <<appVars, hash_seed>>

\* ---- CandidateEvaluator.evaluate_candidates ------------------------------
Job(id, title, mandatory, optional) ==
    [job_id |-> id, title |-> title, description |-> "We are hiring.",
     mandatory_skills |-> mandatory, optional_skills |-> optional,
     min_experience_years |-> Num(0), education_requirements |-> ""]

EvalJobs ==
    {Job("JD-001", "Engineer", <<>>, <<>>),
     Job("JD-001", "Python Developer", <<"Python", "FastAPI", "PostgreSQL">>, <<>>),
     Job("JD-001", "Platform Engineer", <<>>, <<"Docker", "AWS", "Redis">>),
     Job("JD-001", "Web Developer", <<"JS">>, <<"Docker">>),
     Job("JD-001", "Cache Engineer", <<"Redis", "redis">>, <<>>),
     Job("JD-001", "Data Engineer", <<"Redis">>, <<"Docker">>)}

CandidateNames == <<"c1", "c2", "c3", "c4", "c5">>
Candidate(i) == [candidate_id |-> CandidateNames[i], candidate_name |-> "N-" \o CandidateNames[i]]

\* what get_all_candidates_for_job returns: n candidates, in the order stored
Stored(n) == [i \in 1..n |-> Candidate(i)]

Judgment(matched, skills, experience, education) ==
    [matched_skills |-> matched, missing_skills |-> List(<<>>),
     skills_score |-> skills, experience_score |-> experience, education_score |-> education,
     weaknesses |-> List(<<"Limited cloud experience">>),
     confidence_notes |-> Text("Based on resume evidence")]

Answer(judgment) == [context |-> "resume text", llm |-> [kind |-> "json", value |-> judgment]]
\* nothing is retrieved for the candidate; the inference service would answer
NoContext ==
    [context |-> "",
     llm |-> [kind |-> "json",
              value |-> Judgment(List(<<"Python", "Docker">>), Num(90), Num(90), Num(90))]]
TransportError == [context |-> "resume text", llm |-> [kind |-> "transport_error"]]
NotJson == [context |-> "resume text", llm |-> [kind |-> "not_json"]]

\* the collaborators' answers for a single candidate
RichOutcomes ==
    {NoContext, TransportError, NotJson}
    \cup {Answer(Judgment(m, s, x, e)) :
            m \in {List(<<>>), List(<<"Python">>), List(<<"python", "FastAPI", "postgres">>),
                   List(<<"redis">>), List(<<"JavaScript", "Docker">>), List(<<"Docker">>),
                   Null, Missing},
            s \in {Num(90), Null},
            x \in {Num(0), Num(50), Num(60), Num(100), Num(150), Missing},
            e \in {Num(0), Num(50), Num(100), Null}}

\* the collaborators' answers when several candidates are evaluated
CoarseOutcomes ==
    {NoContext,
     Answer(Judgment(List(<<>>), Num(40), Num(40), Num(40))),
     Answer(Judgment(List(<<>>), Num(90), Num(90), Num(90))),
     Answer(Judgment(List(<<"python", "fastapi", "postgres">>), Num(90), Num(50), Num(50))),
     Answer(Judgment(List(<<"Python">>), Num(40), Num(150), Num(0)))}

EvaluateCall(jd, stored, candidate_ids, outcomes, ret) ==
    [fn |-> "evaluate_candidates", jd |-> jd, stored |-> stored,
     candidate_ids |-> candidate_ids, outcomes |-> outcomes, ret |-> ret]

\* one candidate stored, any answer of the collaborators
CallEvaluateOne ==
    /\ call = Idle
    /\ \E jd \in EvalJobs, candidate_ids \in {<<>>, <<"c1">>} :
          \E outcomes \in [{"c1"} -> RichOutcomes] :
             \E ret \in evaluate_candidates(jd, Stored(1), candidate_ids, outcomes) :
                call' = EvaluateCall(jd, Stored(1), candidate_ids, outcomes, ret)
    /\ UNCHANGED <<appVars, hash_seed>>

RankJobs == {jd \in EvalJobs : jd.title \in {"Engineer", "Python Developer"}}

\* up to MaxCandidates candidates stored
CallEvaluateMany ==
    /\ call = Idle
    /\ \E jd \in RankJobs, n \in 2..MaxCandidates :
          \E candidate_ids \in {<<>>, <<"c2", "c1">>} :
             \E outcomes \in [{Stored(n)[i].candidate_id : i \in 1..n} -> CoarseOutcomes] :
                \E ret \in evaluate_candidates(jd, Stored(n), candidate_ids, outcomes) :
                   call' = EvaluateCall(jd, Stored(n), candidate_ids, outcomes, ret)
    /\ UNCHANGED <<appVars, hash_seed>>

\* ---- get_candidate_detail: _match_skills(profile.skills, job_skills) ------
\* skill lists as ResumeParser._extract_skills stores them in a profile
ProfileSkills ==
    {<<>>, <<"JavaScript">>, <<"Java">>, <<"Python", "React">>, <<"Docker", "Redis">>}

DetailJobs == EvalJobs \cup {Job("JD-001", "Java Developer", <<"Java">>, <<"JS">>)}

CallMatchSkills ==
    /\ call = Idle
    /\ \E skills \in ProfileSkills, jd \in DetailJobs :
          LET job_skills == jd.mandatory_skills \o jd.optional_skills
          IN  \E ret \in _match_skills(skills, job_skills) :
                 call' = [fn |-> "_match_skills", candidate_skills |-> skills,
                          job_skills |-> job_skills, ret |-> ret]
    /\ UNCHANGED <<appVars, hash_seed>>

\* ---- RoleLevelInferrer.infer_role_level ----------------------------------
\* schemas.JobDescriptionInput: a field the request leaves out takes its default
JobDescriptionInput(submitted) ==
    [job_id |-> "JD-001", title |-> submitted.title, description |-> submitted.description,
     mandatory_skills |-> <<>>, optional_skills |-> <<>>,
     min_experience_years |-> DictGet(submitted.min_experience_years, Num(0)),
     education_requirements |-> ""]

RoleTitles ==
    {"Engineer", "Senior Engineer", "Lead Developer", "Software Intern", "Staff Architect"}

RoleDescriptions ==
    {"", "We are hiring.", "Senior Python developer.",
     "Senior or mid-level engineer, 3+ years.",
     "Junior or senior, both are welcome.",
     "Senior engineering manager who reports to the director and the principal."}

SubmittedExperience == {Missing, Null} \cup {Num(n) : n \in {0, 1, 2, 3, 5, 6, 8, 10, 20, 21}}

CallInferRoleLevel ==
    /\ call = Idle
    /\ \E title \in RoleTitles, description \in RoleDescriptions,
          years \in SubmittedExperience :
          LET submitted == [title |-> title, description |-> description,
                            min_experience_years |-> years]
              jd == JobDescriptionInput(submitted)
          IN  call' = [fn |-> "infer_role_level", submitted |-> submitted, jd |-> jd,
                       ret |-> infer_role_level(jd)]
    /\ UNCHANGED <<appVars, hash_seed>>

\* ---- TextChunker.chunk_text ----------------------------------------------
MaxSentences == 4

\* sentences of 0, 1 and 4 estimated tokens
SentenceTexts == {"Hi.", "Go on.", "Read it all now."}

\* documents: every text of up to MaxSentences sentences, and texts with
\* whitespace runs, removed characters and no sentence end
Documents_chunk_text ==
    {Join(l, " ") : l \in SeqsUpTo(SentenceTexts, MaxSentences)}
    \cup {"   ", "Done. | Next.", "Hi.\tthere\n\nok!  Yes", "a.b. c", " <Hi.> Go on?  "}

\* TextChunker(chunk_size, overlap)
ChunkerSettings ==
    {[chunk_size |-> 3, overlap |-> 0], [chunk_size |-> 3, overlap |-> 1],
     [chunk_size |-> 4, overlap |-> 1], [chunk_size |-> 4, overlap |-> 2],
     [chunk_size |-> 6, overlap |-> 4]}

CallChunkText ==
    /\ call = Idle
    /\ \E text \in Documents_chunk_text, chunker \in ChunkerSettings :
          call' = [fn |-> "chunk_text", text |-> text, chunk_size |-> chunker.chunk_size,
                   overlap |-> chunker.overlap,
                   out |-> chunk_text(text, chunker.chunk_size, chunker.overlap)]
    /\ UNCHANGED <<appVars, hash_seed>>

\* ---- RAGProcessor.evaluate_with_llm ---------------------------------------
\* the message contents: each JSON document bare, padded, fenced with and
\* without a language tag, and after a sentence of prose; no text at all; prose
ResponseTexts ==
    UNION {{d, "  " \o d \o "\n", Fence \o "json\n" \o d \o "\n" \o Fence,
            Fence \o "json" \o d \o Fence, Fence \o "\n" \o d \o "\n" \o Fence,
            "Here is the evaluation: " \o d} :
           d \in DOMAIN JsonDocuments}
    \cup {"", "I cannot evaluate this resume."}

\* GroqClient.generate_completion raises, or returns the message content
Completions ==
    {[kind |-> "transport_error"], [kind |-> "content", content |-> Null]}
    \cup {[kind |-> "content", content |-> Text(t)] : t \in ResponseTexts}

CallEvaluateWithLlm ==
    /\ call = Idle
    /\ \E llm \in Completions, mandatory_skills \in {<<>>, <<"Python", "FastAPI">>} :
          call' = [fn |-> "evaluate_with_llm", llm |-> llm,
                   mandatory_skills |-> mandatory_skills,
                   ret |-> evaluate_with_llm(llm, mandatory_skills)]
    /\ UNCHANGED <<appVars, hash_seed>>

\* ---- Settings and ScoreCalculator.__init__ --------------------------------
\* the configurations: the weights in hundredths, the thresholds in hundredths
\* of a point; the values of config.py are among them
Configurations ==
    {[SCORING_WEIGHTS |-> [skills |-> s, experience |-> x, education |-> e],
      RECOMMENDATION_THRESHOLDS |-> [strong_fit |-> t.strong, partial_fit |-> t.partial]] :
        s \in {-10, 50, 90}, x \in {-10, 30, 60}, e \in {20, 60},
        t \in {[strong |-> THRESHOLD_STRONG_FIT, partial |-> THRESHOLD_PARTIAL_FIT],
               [strong |-> THRESHOLD_PARTIAL_FIT, partial |-> THRESHOLD_STRONG_FIT],
               [strong |-> THRESHOLD_PARTIAL_FIT, partial |-> THRESHOLD_PARTIAL_FIT],
               [strong |-> THRESHOLD_STRONG_FIT, partial |-> -THRESHOLD_PARTIAL_FIT]}}

CallSettings ==
    /\ call = Idle
    /\ \E configured \in Configurations :
          LET settings == Settings(configured)
          IN  call' = [fn |-> "Settings", configured |-> configured, settings |-> settings,
                       calculator |-> IF settings.ok THEN ScoreCalculator(settings)
                                      ELSE Raise("ValueError")]
    /\ UNCHANGED <<appVars, hash_seed>>

Return ==
    /\ call # Idle
    /\ call' = Idle
    /\ UNCHANGED <<appVars, hash_seed>>

InitApp ==
    /\ job_descriptions = EmptyMap
    /\ evaluation_cache = EmptyMap
    /\ candidate_profiles = EmptyMap
    /\ collections = EmptyMap
    /\ response = [op |-> "startup", job_id |-> "", status |-> 200, body |-> ""]
    /\ requests = 0

InitLib == InitApp /\ hash_seed \in HashSeeds /\ call = Idle

(***************************************************************************)
(* main.py: the shared state and the request handlers                      *)
(***************************************************************************)
\* dict[key] = value, and the dict without some keys
Put(dict, key, value) ==
    [k \in DOMAIN dict \cup {key} |-> IF k = key THEN value ELSE dict[k]]
Remove(dict, keys) == [k \in DOMAIN dict \ keys |-> dict[k]]

\* the characters of identifiers, in code point order
CodePointOrder == "-0123456789ABCDEFGHIJKLMNOPQRSTUVWXYZ_abcdefghijklmnopqrstuvwxyz"
Ord(c) == CHOOSE i \in 1..Len(CodePointOrder) : CharAt(CodePointOrder, i) = c

\* a <= b for Python strings
RECURSIVE StrLeq(_, _)
StrLeq(a, b) ==
    IF a = "" THEN TRUE
    ELSE IF b = "" THEN FALSE
    ELSE IF CharAt(a, 1) = CharAt(b, 1)
         THEN StrLeq(SubSeq(a, 2, Len(a)), SubSeq(b, 2, Len(b)))
         ELSE Ord(CharAt(a, 1)) < Ord(CharAt(b, 1))

RECURSIVE InsertSorted(_, _)
InsertSorted(l, s) ==
    IF l = <<>> THEN <<s>>
    ELSE IF StrLeq(Head(l), s) THEN <<Head(l)>> \o InsertSorted(Tail(l), s)
    ELSE <<s>> \o l

\* sorted(list of strings)
RECURSIVE Sorted(_)
Sorted(l) == IF l = <<>> THEN <<>> ELSE InsertSorted(Sorted(Tail(l)), Head(l))

\* utils.generate_job_id and utils.generate_candidate_id: the identifiers that the
\* random source can produce
generate_job_id == {"JD-5E0C1A9B"}
generate_candidate_id == {"CAND-0A1B2C3D"}

\* ---- rag_utils.py: the vector store ---------------------------------------
CollectionName(job_id) == "job_" \o job_id \o "_resumes"

\* ChromaVectorStore.get_or_create_collection
get_or_create_collection(colls, name) ==
    IF name \in DOMAIN colls THEN colls ELSE Put(colls, name, <<>>)

\* RAGProcessor.index_resume; chunks is what chunker.chunk_text(resume_text)
\* returns.  Adding an id the collection already holds is ignored by some
\* versions of the store and rejected by others.
index_resume(colls, job_id, candidate_id, candidate_name, chunks) ==
    IF chunks = <<>> THEN {[ok |-> TRUE, collections |-> colls, count |-> 0]}
    ELSE
        LET name == CollectionName(job_id)
            created == get_or_create_collection(colls, name)
            documents ==
                [i \in 1..Len(chunks) |->
                    [id |-> job_id \o "_" \o candidate_id \o "_chunk_" \o ToString(i - 1),
                     document |-> chunks[i],
                     metadata |-> [job_id |-> job_id, candidate_id |-> candidate_id,
                                   candidate_name |-> candidate_name,
                                   chunk_index |-> i - 1, total_chunks |-> Len(chunks)]]]
            held == {created[name][i].id : i \in 1..Len(created[name])}
            added == SelectSeq(documents, LAMBDA d : d.id \notin held)
        IN  {[ok |-> TRUE, collections |-> Put(created, name, created[name] \o added),
              count |-> Len(chunks)]}
            \cup (IF Len(added) < Len(documents)
                  THEN {[ok |-> FALSE, collections |-> created, count |-> 0]}
                  ELSE {})

\* RAGProcessor.get_all_candidates_for_job, on a store where the job's collection
\* exists
get_all_candidates_for_job(colls, job_id) ==
    LET docs == colls[CollectionName(job_id)]
    IN  DistinctCandidates([i \in 1..Len(docs) |-> docs[i].metadata], {})

\* RAGProcessor.get_candidate_context: the candidate's chunks, at most
\* 2 * TOP_K_CHUNKS of them, joined (their ranking by distance is not modelled)
get_candidate_context(colls, job_id, candidate_id) ==
    LET docs == colls[CollectionName(job_id)]
        own == SelectSeq(docs, LAMBDA d : d.metadata.candidate_id = candidate_id)
        top == SubSeq(own, 1, Min(Len(own), 2 * TOP_K_CHUNKS))
    IN  Join([i \in 1..Len(top) |-> top[i].document], "\n\n")

\* ---- the inputs of the requests -------------------------------------------
\* the number of requests served in a run
MaxRequests == 4
\* the number of resumes in a bulk upload
MaxBulk == 2

SuppliedJobIds == {"JD-001"}
KnownJobIds == SuppliedJobIds \cup generate_job_id

JobInputs ==
    {Job(id, "Python Developer", <<"Python">>, <<>>) : id \in SuppliedJobIds \cup {""}}
    \cup {Job(id, "Data Engineer", <<"Redis">>, <<"Docker">>) : id \in SuppliedJobIds}

ResumeInputs ==
    {[candidate_id |-> id, candidate_name |-> "Ada", chunks |-> chunks] :
        id \in {"c1", ""}, chunks \in {<<>>, <<"Python developer.">>}}

BulkInputs ==
    {<<>>}
    \cup {<<r>> : r \in {i \in ResumeInputs : i.candidate_id = "c1"}}
    \cup {l \in SeqsUpTo({r \in ResumeInputs : r.chunks # <<>>}, MaxBulk) : Len(l) = MaxBulk}

CandidateIdLists == {<<>>, <<"c1">>, <<"c1", "CAND-0A1B2C3D">>}

\* what the inference service answers in a request
AppLLM ==
    {[kind |-> "transport_error"],
     [kind |-> "json", value |-> Judgment(List(<<"python">>), Num(90), Num(80), Num(70))],
     [kind |-> "json", value |-> Judgment(List(<<"python">>), Num(90), Num(150), Num(70))]}

\* the handler's answer
Serve(op, job_id, status, body) ==
    /\ response' = [op |-> op, job_id |-> job_id, status |-> status, body |-> body]
    /\ requests' = requests + 1

NotFound(op, job_id) ==
    /\ Serve(op, job_id, 404, "Job not found")
    /\ UNCHANGED <<job_descriptions, evaluation_cache, candidate_profiles, collections>>

\* candidate_profiles[job_id][candidate_id] = profile: a dict keeps the place of
\* a key that is assigned again
PutProfile(profiles, profile) ==
    IF \E i \in 1..Len(profiles) : profiles[i].candidate_id = profile.candidate_id
    THEN [i \in 1..Len(profiles) |->
             IF profiles[i].candidate_id = profile.candidate_id THEN profile ELSE profiles[i]]
    ELSE Append(profiles, profile)

\* ---- POST /api/v1/jobs ----------------------------------------------------
create_job ==
    /\ requests < MaxRequests
    /\ \E jd \in JobInputs, generated \in generate_job_id :
          LET job_id == IF jd.job_id = "" THEN generated ELSE jd.job_id
          IN  /\ job_descriptions' =
                    Put(job_descriptions, job_id, [jd EXCEPT !.job_id = job_id])
              /\ Serve("create_job", job_id, 200, "Job description created successfully")
    /\ UNCHANGED <<evaluation_cache, candidate_profiles, collections, hash_seed, call>>

\* ---- PUT /api/v1/jobs/{job_id} --------------------------------------------
update_job ==
    /\ requests < MaxRequests
    /\ \E job_id \in KnownJobIds, jd \in JobInputs :
          LET cache_keys_to_remove ==
                  {key \in DOMAIN evaluation_cache : StartsWith(key, job_id \o "_")}
          IN  /\ job_descriptions' =
                    Put(job_descriptions, job_id, [jd EXCEPT !.job_id = job_id])
              /\ evaluation_cache' = Remove(evaluation_cache, cache_keys_to_remove)
              /\ Serve("update_job", job_id, 200, "Job description updated successfully")
    /\ UNCHANGED <<candidate_profiles, collections, hash_seed, call>>

\* ---- DELETE /api/v1/jobs/{job_id} -----------------------------------------
delete_job ==
    /\ requests < MaxRequests
    /\ \E job_id \in KnownJobIds :
          IF job_id \notin DOMAIN job_descriptions THEN NotFound("delete_job", job_id)
          ELSE /\ collections' = Remove(collections, {CollectionName(job_id)})
               /\ job_descriptions' = Remove(job_descriptions, {job_id})
               /\ evaluation_cache' = Remove(evaluation_cache, {job_id})
               /\ Serve("delete_job", job_id, 200,
                        "Job and associated data deleted successfully")
               /\ UNCHANGED candidate_profiles
    /\ UNCHANGED <<hash_seed, call>>

\* ---- POST /api/v1/jobs/{job_id}/resumes -----------------------------------
upload_resume ==
    /\ requests < MaxRequests
    /\ \E job_id \in KnownJobIds, resume \in ResumeInputs, generated \in generate_candidate_id :
          IF job_id \notin DOMAIN job_descriptions THEN NotFound("upload_resume", job_id)
          ELSE LET candidate_id == IF resume.candidate_id = "" THEN generated
                                   ELSE resume.candidate_id
               IN  \E indexed \in index_resume(collections, job_id, candidate_id,
                                               resume.candidate_name, resume.chunks) :
                      /\ collections' = indexed.collections
                      /\ IF indexed.ok
                         THEN /\ evaluation_cache' = Remove(evaluation_cache, {job_id})
                              /\ Serve("upload_resume", job_id, 200, indexed.count)
                         ELSE /\ UNCHANGED evaluation_cache
                              /\ Serve("upload_resume", job_id, 500, "DuplicateIDError")
                      /\ UNCHANGED <<job_descriptions, candidate_profiles>>
    /\ UNCHANGED <<hash_seed, call>>

\* ---- POST /api/v1/jobs/{job_id}/resumes/bulk ------------------------------
\* the loop of upload_resumes_bulk over the first n resumes: the profile is
\* stored, then the resume is indexed; an exception leaves the loop
RECURSIVE BulkLoop(_, _, _, _, _)
BulkLoop(job_id, resumes, n, profiles, colls) ==
    IF n = 0
    THEN {[ok |-> TRUE, profiles |-> profiles, collections |-> colls,
           processed |-> 0, total_chunks |-> 0]}
    ELSE UNION {
            IF ~before.ok THEN {before}
            ELSE UNION {
                    LET resume == resumes[n]
                        candidate_id == IF resume.candidate_id = "" THEN generated
                                        ELSE resume.candidate_id
                        stored == PutProfile(before.profiles,
                                             [candidate_id |-> candidate_id, job_id |-> job_id,
                                              name |-> resume.candidate_name])
                    IN  {[ok |-> indexed.ok, profiles |-> stored,
                          collections |-> indexed.collections,
                          processed |-> IF indexed.ok THEN before.processed + 1
                                        ELSE before.processed,
                          total_chunks |-> before.total_chunks + indexed.count]
                         : indexed \in index_resume(before.collections, job_id, candidate_id,
                                                    resume.candidate_name, resume.chunks)}
                    : generated \in generate_candidate_id}
            : before \in BulkLoop(job_id, resumes, n - 1, profiles, colls)}

upload_resumes_bulk ==
    /\ requests < MaxRequests
    /\ \E job_id \in KnownJobIds, resumes \in BulkInputs :
          IF job_id \notin DOMAIN job_descriptions
          THEN NotFound("upload_resumes_bulk", job_id)
          ELSE IF Len(resumes) > MAX_RESUMES_PER_JD
          THEN /\ Serve("upload_resumes_bulk", job_id, 400, "Maximum resumes per request")
               /\ UNCHANGED <<job_descriptions, evaluation_cache, candidate_profiles,
                              collections>>
          ELSE LET profiles == IF job_id \in DOMAIN candidate_profiles
                               THEN candidate_profiles[job_id] ELSE <<>>
               IN  \E done \in BulkLoop(job_id, resumes, Len(resumes), profiles, collections) :
                      /\ candidate_profiles' = Put(candidate_profiles, job_id, done.profiles)
                      /\ collections' = done.collections
                      /\ IF done.ok
                         THEN /\ evaluation_cache' = Remove(evaluation_cache, {job_id})
                              /\ Serve("upload_resumes_bulk", job_id, 200, done.processed)
                         ELSE /\ UNCHANGED evaluation_cache
                              /\ Serve("upload_resumes_bulk", job_id, 500, "DuplicateIDError")
                      /\ UNCHANGED job_descriptions
    /\ UNCHANGED <<hash_seed, call>>

\* ---- GET /api/v1/jobs/{job_id}/candidates ---------------------------------
list_candidates ==
    /\ requests < MaxRequests
    /\ \E job_id \in KnownJobIds :
          IF job_id \notin DOMAIN job_descriptions THEN NotFound("list_candidates", job_id)
          ELSE IF job_id \in DOMAIN candidate_profiles /\ candidate_profiles[job_id] # <<>>
          THEN LET profiles == candidate_profiles[job_id]
                   candidates == [i \in 1..Len(profiles) |->
                                     [candidate_id |-> profiles[i].candidate_id,
                                      candidate_name |-> profiles[i].name]]
               IN  /\ Serve("list_candidates", job_id, 200,
                            [job_id |-> job_id, total_candidates |-> Len(candidates),
                             candidates |-> candidates])
                   /\ UNCHANGED collections
          ELSE LET colls == get_or_create_collection(collections, CollectionName(job_id))
                   candidates == get_all_candidates_for_job(colls, job_id)
               IN  /\ Serve("list_candidates", job_id, 200,
                            [job_id |-> job_id, total_candidates |-> Len(candidates),
                             candidates |-> candidates])
                   /\ collections' = colls
    /\ UNCHANGED <<job_descriptions, evaluation_cache, candidate_profiles, hash_seed, call>>

\* ---- POST /api/v1/analyze-resume ------------------------------------------
\* the outcomes of reading the upload and of the two inference calls
AnalyzeOutcomes ==
    {[kind |-> "not_pdf"], [kind |-> "invalid_pdf"], [kind |-> "llm_error"]}
    \cup {[kind |-> "ok", chunks |-> chunks] : chunks \in {<<>>, <<"Python developer.">>}}

analyze_resume ==
    /\ requests < MaxRequests
    /\ \E job_id \in {"", "JD-001"}, outcome \in AnalyzeOutcomes,
          candidate_id \in generate_candidate_id :
          LET effective_job_id == IF job_id = "" THEN "default" ELSE job_id
          IN  IF outcome.kind = "not_pdf"
              THEN /\ Serve("analyze_resume", effective_job_id, 400,
                            "Only PDF files are accepted")
                   /\ UNCHANGED <<candidate_profiles, collections>>
              ELSE IF outcome.kind \in {"invalid_pdf", "llm_error"}
              THEN /\ Serve("analyze_resume", effective_job_id, 500, outcome.kind)
                   /\ UNCHANGED <<candidate_profiles, collections>>
              ELSE \E indexed \in index_resume(collections, effective_job_id, candidate_id,
                                               "Ada", outcome.chunks) :
                      /\ collections' = indexed.collections
                      /\ IF indexed.ok
                         THEN LET profiles ==
                                      IF effective_job_id \in DOMAIN candidate_profiles
                                      THEN candidate_profiles[effective_job_id] ELSE <<>>
                                  profile == [candidate_id |-> candidate_id,
                                              job_id |-> effective_job_id, name |-> "Ada"]
                              IN  /\ candidate_profiles' =
                                        Put(candidate_profiles, effective_job_id,
                                            PutProfile(profiles, profile))
                                  /\ Serve("analyze_resume", effective_job_id, 200,
                                           [candidate_id |-> candidate_id,
                                            job_id |-> effective_job_id])
                         ELSE /\ UNCHANGED candidate_profiles
                              /\ Serve("analyze_resume", effective_job_id, 500,
                                       "DuplicateIDError")
    /\ UNCHANGED <<job_descriptions, evaluation_cache, hash_seed, call>>

\* ---- POST /api/v1/evaluate ------------------------------------------------
CacheKey(job_id, candidate_ids) ==
    IF candidate_ids = <<>> THEN job_id \o "_all"
    ELSE job_id \o "_" \o Join(Sorted(candidate_ids), "_")

\* what the evaluator returned so far is cached even when it raised
CacheAndRespond_CachesFailure(job_id, jd, cache_key, ret) ==
    LET evaluations == IF ret.ok THEN ret.evaluations ELSE <<>>
        answer == [job_id |-> job_id, job_title |-> jd.title,
                   total_candidates |-> Len(evaluations), candidates |-> evaluations]
    IN  /\ evaluation_cache' = Put(evaluation_cache, cache_key, answer)
        /\ IF ret.ok THEN Serve("evaluate", job_id, 200, answer)
           ELSE Serve("evaluate", job_id, 500, ret.error)

\* evaluate_candidates, lines 887-909: the response is built and cached once
\* the evaluator has returned; an exception is answered with 500
CacheAndRespond(job_id, jd, cache_key, ret) ==
    IF ret.ok
    THEN LET answer == [job_id |-> job_id, job_title |-> jd.title,
                        total_candidates |-> Len(ret.evaluations),
                        candidates |-> ret.evaluations]
         IN  /\ evaluation_cache' = Put(evaluation_cache, cache_key, answer)
             /\ Serve("evaluate", job_id, 200, answer)
    ELSE /\ UNCHANGED evaluation_cache
         /\ Serve("evaluate", job_id, 500, ret.error)

\* the handler serving EvaluationRequest(job_id, candidate_ids)
EvaluateRequest(job_id, candidate_ids) ==
          IF job_id \notin DOMAIN job_descriptions THEN NotFound("evaluate", job_id)
          ELSE
            LET jd == job_descriptions[job_id]
                cache_key == CacheKey(job_id, candidate_ids)
            IN  IF cache_key \in DOMAIN evaluation_cache
                THEN /\ Serve("evaluate", job_id, 200, evaluation_cache[cache_key])
                     /\ UNCHANGED <<evaluation_cache, collections>>
                ELSE
                  LET colls == get_or_create_collection(collections, CollectionName(jd.job_id))
                      stored == get_all_candidates_for_job(colls, jd.job_id)
                      selected == SelectedCandidates(stored, candidate_ids)
                      ids == {selected[i].candidate_id : i \in 1..Len(selected)}
                  IN  \E llm \in [ids -> AppLLM] :
                         LET outcomes ==
                                 [c \in ids |->
                                     [context |-> get_candidate_context(colls, jd.job_id, c),
                                      llm |-> llm[c]]]
                         IN  \E ret \in evaluate_candidates(jd, stored, candidate_ids, outcomes) :
                                /\ collections' = colls
                                /\ CacheAndRespond(job_id, jd, cache_key, ret)

evaluate_candidates_endpoint ==
    /\ requests < MaxRequests
    /\ \E job_id \in KnownJobIds, candidate_ids \in CandidateIdLists :
          EvaluateRequest(job_id, candidate_ids)
    /\ UNCHANGED <<job_descriptions, candidate_profiles, hash_seed, call>>

\* ---- GET /api/v1/results/{job_id} -----------------------------------------
get_cached_results ==
    /\ requests < MaxRequests
    /\ \E job_id \in KnownJobIds :
          LET cache_key == job_id \o "_all"
          IN  IF cache_key \notin DOMAIN evaluation_cache
              THEN Serve("get_cached_results", job_id, 404, "No cached results found")
              ELSE Serve("get_cached_results", job_id, 200, evaluation_cache[cache_key])
    /\ UNCHANGED <<job_descriptions, evaluation_cache, candidate_profiles, collections,
                   hash_seed, call>>

\* ---- the cache key of two evaluate requests -------------------------------
\* evaluate requests: a job id that create_job accepts, and candidate ids that
\* upload_resume accepts
EvaluationRequests ==
    {[job_id |-> job_id, candidate_ids |-> candidate_ids] :
        job_id \in {"JD-001", "JD-001_c1"},
        candidate_ids \in {<<>>, <<"all">>, <<"c1">>, <<"c2">>, <<"c2", "c1">>,
                           <<"c1", "c2">>, <<"c1_c2">>}}

CallCacheKey ==
    /\ call = Idle
    /\ \E first \in EvaluationRequests, second \in EvaluationRequests :
          call' = [fn |-> "cache_key", first |-> first, second |-> second,
                   ret |-> <<CacheKey(first.job_id, first.candidate_ids),
                             CacheKey(second.job_id, second.candidate_ids)>>]
    /\ UNCHANGED <<appVars, hash_seed>>

NextLib ==
    \/ CallNormalize
    \/ CallNormalizeList
    \/ CallSkillsScore
    \/ MatchOneMore
    \/ CallEvaluateOne
    \/ CallEvaluateMany
    \/ CallMatchSkills
    \/ CallInferRoleLevel
    \/ CallChunkText
    \/ CallEvaluateWithLlm
    \/ CallSettings
    \/ CallCacheKey
    \/ Return

\* the library functions, called on their own
SpecLib == InitLib /\ [][NextLib]_vars

\* AppState.__init__, and the services as the application starts
Init == InitApp /\ hash_seed \in HashSeeds /\ call = Idle

Next ==
    \/ create_job
    \/ update_job
    \/ delete_job
    \/ upload_resume
    \/ upload_resumes_bulk
    \/ list_candidates
    \/ analyze_resume
    \/ evaluate_candidates_endpoint
    \/ get_cached_results

\* the application serving requests
Spec == Init /\ [][Next]_vars

(***************************************************************************)
(* Properties of the evaluation cache (under Spec)                         *)
(***************************************************************************)
\* the evaluation-cache entries computed for a job
EntriesOf(cache, job_id) == {key \in DOMAIN cache : cache[key].job_id = job_id}

\* the documents the retrieval index holds for a job
Documents(colls, job_id) ==
    IF CollectionName(job_id) \in DOMAIN colls THEN colls[CollectionName(job_id)] ELSE <<>>

\* C1: after an operation that replaces the stored requirement of a job
\* (update_job, or create_job with a job_id that is already stored), no
\* evaluation-cache entry computed for that job remains.
C1_ReplaceInvalidatesCache ==
    [][(\/ response'.op = "update_job"
        \/ response'.op = "create_job" /\ response'.job_id \in DOMAIN job_descriptions)
         => EntriesOf(evaluation_cache', response'.job_id) = {}]_vars

\* C2: whenever a new resume is ingested for a job (upload_resume,
\* upload_resumes_bulk or analyze_resume), every evaluation-cache entry of that
\* job is removed.
C2_IngestionInvalidatesCache ==
    [][(/\ response'.op \in {"upload_resume", "upload_resumes_bulk", "analyze_resume"}
        /\ Len(Documents(collections', response'.job_id))
              > Len(Documents(collections, response'.job_id)))
         => EntriesOf(evaluation_cache', response'.job_id) = {}]_vars

\* the candidates the retrieval index holds for a job
IndexedCandidates(colls, job_id) ==
    {Documents(colls, job_id)[i].metadata.candidate_id :
        i \in 1..Len(Documents(colls, job_id))}

\* C22: an evaluate request for an unknown job, or naming a candidate that is
\* not indexed for the job, is answered with a not-found error and writes no
\* cache entry
C22_UnknownReferenceIsNotFound ==
    [][\A job_id \in KnownJobIds, candidate_ids \in CandidateIdLists :
          (/\ response'.op = "evaluate"
           /\ \/ job_id \notin DOMAIN job_descriptions
              \/ Range(candidate_ids) \ IndexedCandidates(collections, job_id) # {}
           /\ requests < MaxRequests
           /\ EvaluateRequest(job_id, candidate_ids)
           /\ UNCHANGED <<job_descriptions, candidate_profiles, hash_seed, call>>)
          => (response'.status = 404 /\ evaluation_cache' = evaluation_cache)]_vars

\* C25: after delete_job succeeds for a job, the job is absent from the job
\* store, its collection is deleted, no evaluation-cache entry of the job
\* remains (so get_cached_results finds nothing) and no candidate profile of
\* the job remains
C25_DeleteLeavesNothing ==
    [][(response'.op = "delete_job" /\ response'.status = 200)
         => LET job_id == response'.job_id
            IN  /\ job_id \notin DOMAIN job_descriptions'
                /\ CollectionName(job_id) \notin DOMAIN collections'
                /\ EntriesOf(evaluation_cache', job_id) = {}
                /\ (job_id \o "_all") \notin DOMAIN evaluation_cache'
                /\ \/ job_id \notin DOMAIN candidate_profiles'
                   \/ candidate_profiles'[job_id] = <<>>]_vars

\* C27: an evaluate request that fails leaves the evaluation cache as it was,
\* and an evaluate request that changes the cache writes one entry, the
\* response it returns, holding an evaluation of every candidate of the
\* request in descending order of final score
C27_NoPartialResultsCached ==
    [][response'.op = "evaluate"
         => /\ response'.status # 200 => evaluation_cache' = evaluation_cache
            /\ evaluation_cache' # evaluation_cache =>
                  \E candidate_ids \in CandidateIdLists :
                     LET key == CacheKey(response'.job_id, candidate_ids)
                         entry == response'.body
                         selected == SelectedCandidates(
                                         get_all_candidates_for_job(collections',
                                                                    response'.job_id),
                                         candidate_ids)
                     IN  /\ key \notin DOMAIN evaluation_cache
                         /\ evaluation_cache' = Put(evaluation_cache, key, entry)
                         /\ {entry.candidates[i].candidate_id : i \in 1..Len(entry.candidates)}
                               = {selected[i].candidate_id : i \in 1..Len(selected)}
                         /\ Len(entry.candidates) = Len(selected)
                         /\ \A i \in 1..Len(entry.candidates) - 1 :
                               entry.candidates[i].scores.final_score
                                  >= entry.candidates[i + 1].scores.final_score]_vars

\* a request failed while the cache held an earlier result
C27_Witness ==
    /\ response.op = "evaluate"
    /\ response.status = 500
    /\ DOMAIN evaluation_cache # {}

\* the candidates that an evaluate request without candidate ids evaluates
EvaluatedCandidates(colls, job_id) ==
    LET stored == get_all_candidates_for_job(
                      get_or_create_collection(colls, CollectionName(job_id)), job_id)
        selected == SelectedCandidates(stored, <<>>)
    IN  {selected[i].candidate_id : i \in 1..Len(selected)}

\* get_candidate_detail finds the candidate's profile (main.py, lines 511-517)
ProfileFound(profiles, job_id, candidate_id) ==
    /\ job_id \in DOMAIN profiles
    /\ \E i \in 1..Len(profiles[job_id]) : profiles[job_id][i].candidate_id = candidate_id

\* C30: the candidates that list_candidates returns for a job are the
\* candidates that an evaluate request without candidate ids evaluates, and
\* each of them has a stored profile that get_candidate_detail finds
C30_ListedAreEvaluatedWithProfile ==
    [][(response'.op = "list_candidates" /\ response'.status = 200)
         => LET job_id == response'.job_id
                listed == {response'.body.candidates[i].candidate_id :
                              i \in 1..Len(response'.body.candidates)}
            IN  /\ listed = EvaluatedCandidates(collections', job_id)
                /\ \A c \in listed : ProfileFound(candidate_profiles', job_id, c)]_vars

(***************************************************************************)
(* Properties of the library functions (under SpecLib)                     *)
(***************************************************************************)
\* the evaluations of the last evaluate_candidates call that returned
ReturnedEvaluations ==
    IF call.fn = "evaluate_candidates" /\ call.ret.ok
    THEN {call.ret.evaluations[i] : i \in 1..Len(call.ret.evaluations)}
    ELSE {}

\* the place of a candidate in the list the retrieval index returned
UpstreamIndex(candidate_id) ==
    CHOOSE i \in 1..Len(call.stored) : call.stored[i].candidate_id = candidate_id

\* C3: the list evaluate_candidates returns is ordered by final_score, highest
\* first, and evaluations with equal final_score keep the order in which the
\* retrieval index returned their candidates.
C3_SortedStable ==
    (call.fn = "evaluate_candidates" /\ call.ret.ok) =>
        LET evs == call.ret.evaluations
        IN  \A i, j \in 1..Len(evs) :
               i < j =>
                  /\ evs[i].scores.final_score >= evs[j].scores.final_score
                  /\ evs[i].scores.final_score = evs[j].scores.final_score
                        => UpstreamIndex(evs[i].candidate_id) < UpstreamIndex(evs[j].candidate_id)

\* upstream scores [40, 90, 90]: the two 90-scorers come first, in input order
C3_Witness ==
    /\ call.fn = "evaluate_candidates" /\ call.ret.ok
    /\ Len(call.stored) = 3 /\ call.candidate_ids = <<>>
    /\ [i \in 1..Len(call.ret.evaluations) |->
           <<call.ret.evaluations[i].candidate_id,
             call.ret.evaluations[i].scores.final_score>>]
         = <<(<<"c2", 9000>>), (<<"c3", 9000>>), (<<"c1", 4000>>)>>

\* C4: calculate_skills_score returns 50 when no skills are specified; otherwise
\* the mandatory credit (70 scaled by matched/total, 70 if none) plus the optional
\* credit (30 scaled likewise, 30 if none) minus 10 per missing mandatory skill,
\* clamped to [0, 100]; the result always lies in [0, 100], and mandatory
\* [Python, FastAPI, PostgreSQL] with matched [Python] gives 33.33.
C4_SkillsScoreFormula ==
    call.fn = "calculate_skills_score" =>
        LET canon(l) == {normalize(l[i]) : i \in 1..Len(l)}
            mTotal == Len(call.mandatory_skills)
            oTotal == Len(call.optional_skills)
            mMatched == Cardinality(canon(call.mandatory_skills) \cap canon(call.matched_skills))
            oMatched == Cardinality(canon(call.optional_skills) \cap canon(call.matched_skills))
            mDen == IF mTotal = 0 THEN 1 ELSE mTotal
            oDen == IF oTotal = 0 THEN 1 ELSE oTotal
            \* the unclamped score, times mDen * oDen
            raw == (IF mTotal = 0 THEN 70 * oDen ELSE 70 * mMatched * oDen)
                   + (IF oTotal = 0 THEN 30 * mDen ELSE 30 * oMatched * mDen)
                   - 10 * (mTotal - mMatched) * mDen * oDen
            clamped == IF raw < 0 THEN 0
                       ELSE IF raw > 100 * mDen * oDen THEN 100 * mDen * oDen ELSE raw
        IN  /\ (mTotal = 0 /\ oTotal = 0) => call.ret.num = 50 * call.ret.den
            /\ ~(mTotal = 0 /\ oTotal = 0) => call.ret.num * mDen * oDen = clamped * call.ret.den
            /\ 0 <= call.ret.num /\ call.ret.num <= 100 * call.ret.den
            /\ (/\ call.mandatory_skills = <<"Python", "FastAPI", "PostgreSQL">>
                /\ call.matched_skills = <<"Python">>
                /\ call.optional_skills = <<>>) => Round2(call.ret) = {3333}

C4_Witness ==
    /\ call.fn = "calculate_skills_score"
    /\ call.mandatory_skills = <<"Python", "FastAPI", "PostgreSQL">>
    /\ call.matched_skills = <<"Python">>
    /\ call.optional_skills = <<>>
    /\ 3 * call.ret.num = 100 * call.ret.den

\* C5: with the mandatory and optional lists fixed, reporting one more of the
\* mandatory skills as matched never lowers the skills score.
C5_MonotonicInMatched ==
    [][(call.fn = "calculate_skills_score" /\ call'.fn = "calculate_skills_score")
         => RLeq(call.ret, call'.ret)]_vars

\* a call made again with one more mandatory skill matched, and a higher score
C5_Witness ==
    /\ call.fn = "calculate_skills_score"
    /\ call.matched_skills = <<"Redis", "Python">>
    /\ call.mandatory_skills = <<"Python", "FastAPI">>
    /\ call.optional_skills = <<>>
    /\ call.ret.num = 55 * call.ret.den

\* C6: in every evaluation produced, final_score is 0.50 * skills_score
\* + 0.30 * experience_score + 0.20 * education_score rounded to two decimals, and
\* the four scores lie in [0, 100]; skills 80, experience 60, education 100 give 78.
C6_FinalScoreWeighted ==
    \A e \in ReturnedEvaluations :
        LET sc == e.scores
            weighted == 50 * sc.skills_score + 30 * sc.experience_score
                        + 20 * sc.education_score
        IN  /\ 2 * Abs(100 * sc.final_score - weighted) <= 100
            /\ \A v \in {sc.skills_score, sc.experience_score, sc.education_score,
                           sc.final_score} : 0 <= v /\ v <= 10000
            /\ (sc.skills_score = 8000 /\ sc.experience_score = 6000
                 /\ sc.education_score = 10000) => sc.final_score = 7800

C6_Witness ==
    \E e \in ReturnedEvaluations :
        e.scores = [skills_score |-> 8000, experience_score |-> 6000,
                    education_score |-> 10000, final_score |-> 7800]

\* C7: in every evaluation produced the recommendation is decided by final_score
\* alone: Strong Fit iff final_score >= 75, Partial Fit iff 50 <= final_score < 75,
\* Weak Fit iff final_score < 50.
C7_RecommendationByThreshold ==
    \A e \in ReturnedEvaluations :
        LET f == e.scores.final_score
        IN  /\ e.overall_recommendation = "Strong Fit" <=> f >= 7500
            /\ e.overall_recommendation = "Partial Fit" <=> (5000 <= f /\ f < 7500)
            /\ e.overall_recommendation = "Weak Fit" <=> f < 5000

\* an evaluation exactly on the strong-fit threshold
C7_Witness ==
    \E e \in ReturnedEvaluations :
        e.scores.final_score = 7500 /\ e.overall_recommendation = "Strong Fit"

\* C8: normalize is idempotent on every skill string: the table keys in any
\* letter case, the canonical values, and unknown tokens with whitespace.
C8_NormalizeIdempotent ==
    call.fn = "normalize" => call.twice = call.once

\* a padded upper-case key, canonicalized
C8_Witness ==
    call.fn = "normalize" /\ call.skill = "JS  " /\ call.once = "JavaScript"
                          /\ call.twice = "JavaScript"

\* C9: no two elements of the list normalize_list returns are equal when letter
\* case is ignored.
C9_NoCaseInsensitiveDuplicates ==
    call.fn = "normalize_list" =>
        \A i, j \in 1..Len(call.ret) : i # j => Lower(call.ret[i]) # Lower(call.ret[j])

\* C10: for every evaluation, the number of mandatory skills calculate_skills_score
\* penalises as missing equals the length of the missing_skills list reported for
\* the candidate.
C10_PenalisedEqualsMissing ==
    \A e \in ReturnedEvaluations :
        missing_mandatory(e.matched_skills, normalize_list(call.jd.mandatory_skills))
            = Len(e.missing_skills)


(***************************************************************************)
(* Properties of the candidate detail's skill match                        *)
(***************************************************************************)
\* C11: a job skill is reported as matched for a candidate exactly when its
\* canonical form equals the canonical form of one of the candidate's skills
C11_MatchedIffCanonicalEqual ==
    call.fn = "_match_skills" =>
        \A i \in 1..Len(call.job_skills) :
            (call.job_skills[i] \in Range(call.ret.matched_skills))
            <=> \E j \in 1..Len(call.candidate_skills) :
                   normalize(call.job_skills[i]) = normalize(call.candidate_skills[j])

(***************************************************************************)
(* Properties of the role level classifier                                 *)
(***************************************************************************)
\* the number of a level's keywords that occur in the lower-cased title and
\* description of the call
KeywordsFound(i) ==
    Cardinality({k \in Range(LEVEL_INDICATORS[i].keywords) :
                    Contains(Lower(call.jd.title \o " " \o call.jd.description), k)})

\* C12: each level scores 2 per keyword found in the lower-cased title and
\* description plus 3 when min_experience_years is present and within the
\* level's inclusive range; the result is Mid when all scores are zero, and
\* otherwise the earliest level, in declaration order, with the highest score
C12_HighestScoreEarliestLevel ==
    call.fn = "infer_role_level" =>
        LET years == call.jd.min_experience_years
            low(i) == LEVEL_INDICATORS[i].experience_years[1]
            high(i) == LEVEL_INDICATORS[i].experience_years[2]
            score(i) == 2 * KeywordsFound(i)
                        + (IF years.t = "num" /\ low(i) <= years.v /\ years.v <= high(i)
                           THEN 3 ELSE 0)
        IN  /\ <<LEVEL_INDICATORS[1].level, LEVEL_INDICATORS[2].level,
                 LEVEL_INDICATORS[3].level, LEVEL_INDICATORS[4].level,
                 LEVEL_INDICATORS[5].level>>
               = <<"Intern", "Junior", "Mid", "Senior", "Lead">>
            /\ IF \A i \in 1..5 : score(i) = 0 THEN call.ret = "Mid"
               ELSE \E i \in 1..5 :
                       /\ call.ret = LEVEL_INDICATORS[i].level
                       /\ \A j \in 1..5 : score(j) <= score(i)
                       /\ \A j \in 1..(i - 1) : score(j) < score(i)

\* a call in which two levels share the highest score
C12_Witness ==
    /\ call.fn = "infer_role_level"
    /\ call.jd.title = "Lead Developer"
    /\ call.jd.description = "Senior Python developer."
    /\ call.jd.min_experience_years = Num(8)
    /\ call.ret = "Senior"

\* C13: a job submitted with an empty description, without min_experience_years
\* and with a title that holds no level keyword is classified as Mid
C13_EmptyJobIsMid ==
    (/\ call.fn = "infer_role_level"
     /\ call.submitted.description = ""
     /\ call.submitted.min_experience_years.t = "missing"
     /\ \A i \in 1..5 : \A k \in Range(LEVEL_INDICATORS[i].keywords) :
           ~Contains(Lower(call.submitted.title), k))
    => call.ret = "Mid"

\* C14 as stated: a description that contains "Senior", with 6 years, is
\* classified as Senior
C14_SeniorAtSixYears ==
    (/\ call.fn = "infer_role_level"
     /\ Contains(call.jd.description, "Senior")
     /\ call.jd.min_experience_years = Num(6))
    => call.ret = "Senior"

\* C14, amended: such a job is classified as Senior exactly when no other level
\* has two or more keywords found beyond the number of Senior keywords found
C14_SeniorUnlessOutnumbered ==
    (/\ call.fn = "infer_role_level"
     /\ Contains(call.jd.description, "Senior")
     /\ call.jd.min_experience_years = Num(6))
    => (call.ret = "Senior"
        <=> \A i \in {1, 2, 3, 5} : KeywordsFound(i) <= KeywordsFound(4) + 1)

\* a Senior description that also names one keyword of another level
C14_Witness ==
    /\ call.fn = "infer_role_level"
    /\ call.jd.title = "Engineer"
    /\ call.jd.description = "Senior or mid-level engineer, 3+ years."
    /\ call.jd.min_experience_years = Num(6)
    /\ call.ret = "Senior"

(***************************************************************************)
(* Properties of the chunker                                               *)
(***************************************************************************)
\* the positions of the sentences of chunk j of the call
ChunkAt(j) == call.out.chunk_sentences[j]

NumChunks == Len(call.out.chunk_sentences)

\* C15: no sentence is dropped and the order is kept: every sentence is in some
\* chunk, every chunk is a contiguous run of the sentence sequence, every chunk
\* after the first holds a sentence that no earlier chunk holds, and the chunk
\* left over after the last sentence is emitted
C15_NoSentenceDropped ==
    call.fn = "chunk_text" =>
        LET n == Len(call.out.sentences)
        IN  /\ \A i \in 1..n : \E j \in 1..NumChunks : i \in Range(ChunkAt(j))
            /\ \A j \in 1..NumChunks :
                  /\ ChunkAt(j) # <<>>
                  /\ \A k \in 1..(Len(ChunkAt(j)) - 1) : ChunkAt(j)[k + 1] = ChunkAt(j)[k] + 1
                  /\ call.out.ret[j]
                     = Join([k \in 1..Len(ChunkAt(j)) |-> call.out.sentences[ChunkAt(j)[k]]], " ")
            /\ \A j \in 2..NumChunks :
                  \E i \in Range(ChunkAt(j)) : \A e \in 1..(j - 1) : i \notin Range(ChunkAt(e))
            /\ n > 0 => /\ NumChunks > 0
                        /\ ChunkAt(NumChunks)[Len(ChunkAt(NumChunks))] = n
            /\ Len(call.out.ret) = NumChunks

\* a text of four sentences cut into three chunks, the last of one sentence
C15_Witness ==
    /\ call.fn = "chunk_text"
    /\ call.text = "Go on. Go on. Read it all now. Hi."
    /\ call.chunk_size = 3 /\ call.overlap = 0
    /\ call.out.ret = <<"Go on. Go on.", "Read it all now.", "Hi.">>

\* C16: the sentences that a chunk shares with the chunk before it are a suffix
\* of the earlier chunk, stand at the start of the later chunk, and their summed
\* tokens do not exceed the overlap
C16_OverlapIsBoundedSuffix ==
    call.fn = "chunk_text" =>
        \A j \in 1..(NumChunks - 1) :
            LET earlier == ChunkAt(j)
                later == ChunkAt(j + 1)
                shared == Range(earlier) \cap Range(later)
                m == Cardinality(shared)
            IN  /\ m <= Len(earlier) /\ m <= Len(later)
                /\ \A k \in 1..m : /\ earlier[Len(earlier) - m + k] \in shared
                                   /\ later[k] = earlier[Len(earlier) - m + k]
                /\ ChunkTokens(call.out.tokens, SubSeq(later, 1, m)) <= call.overlap

\* two chunks that share one sentence, although the earlier chunk holds two
C16_Witness ==
    /\ call.fn = "chunk_text"
    /\ call.text = "Go on. Go on. Read it all now."
    /\ call.chunk_size = 4 /\ call.overlap = 1
    /\ call.out.chunk_sentences = <<<<1, 2>>, <<2, 3>>>>

\* C17: every chunk of more than one sentence has summed tokens of at most
\* chunk_size
C17_MultiSentenceChunkWithinSize ==
    call.fn = "chunk_text" =>
        \A j \in 1..NumChunks :
            Len(ChunkAt(j)) > 1 => ChunkTokens(call.out.tokens, ChunkAt(j)) <= call.chunk_size

\* C18: a document whose cleaned text has fewer estimated tokens than chunk_size
\* yields exactly one chunk, equal to the cleaned text
C18_ShortDocumentIsOneChunk ==
    (call.fn = "chunk_text" /\ estimate_tokens(call.out.cleaned) < call.chunk_size)
    => call.out.ret = <<call.out.cleaned>>

(***************************************************************************)
(* Properties of evaluate_with_llm                                         *)
(***************************************************************************)
\* the value is a dict (the record of its keys), not a tagged JSON value
IsDict(value) == "t" \notin DOMAIN value

\* C19: whatever the collaborator answers, the value returned is an object
\* with matched_skills and missing_skills as lists (of strings) and with
\* skills_score, experience_score and education_score as numbers
C19_WellFormedJudgment ==
    call.fn = "evaluate_with_llm" =>
        /\ IsDict(call.ret)
        /\ call.ret.matched_skills.t = "list"
        /\ call.ret.missing_skills.t = "list"
        /\ call.ret.skills_score.t = "num"
        /\ call.ret.experience_score.t = "num"
        /\ call.ret.education_score.t = "num"

\* C20: when the call fails in transport, or the content with its fences
\* stripped is no JSON document, the result has no matched skill, the whole
\* mandatory list as missing skills, the three scores 0 and a failure note as
\* its weaknesses
C20_FallbackOnFailure ==
    (/\ call.fn = "evaluate_with_llm"
     /\ \/ call.llm.kind = "transport_error"
        \/ /\ call.llm.kind = "content"
           /\ call.llm.content.t = "str"
           /\ ~json_loads(StripFences(Strip(call.llm.content.v))).ok)
    => /\ call.ret.matched_skills = List(<<>>)
       /\ call.ret.missing_skills = List(call.mandatory_skills)
       /\ call.ret.skills_score = Num(0)
       /\ call.ret.experience_score = Num(0)
       /\ call.ret.education_score = Num(0)
       /\ call.ret.weaknesses.t = "list"
       /\ call.ret.weaknesses.v # <<>>
       /\ Range(call.ret.weaknesses.v) \subseteq {"Resume parsing failed", "Evaluation failed"}

\* prose instead of JSON, for a job with two mandatory skills
C20_Witness ==
    /\ call.fn = "evaluate_with_llm"
    /\ call.llm = [kind |-> "content", content |-> Text("I cannot evaluate this resume.")]
    /\ call.mandatory_skills = <<"Python", "FastAPI">>
    /\ call.ret.missing_skills = List(<<"Python", "FastAPI">>)
    /\ call.ret.weaknesses = List(<<"Resume parsing failed">>)

(***************************************************************************)
(* Properties of the batch evaluation (under SpecLib)                      *)
(***************************************************************************)
\* the selected candidates of the call whose own evaluation raises nothing
SoundCandidates ==
    LET mandatory_skills == normalize_list(call.jd.mandatory_skills)
        optional_skills == normalize_list(call.jd.optional_skills)
        selected == SelectedCandidates(call.stored, call.candidate_ids)
    IN  {selected[i] : i \in {j \in 1..Len(selected) :
            \A r \in evaluate_single_candidate(selected[j], mandatory_skills, optional_skills,
                                               call.outcomes[selected[j].candidate_id]) : r.ok}}

\* C21: a failure while one candidate of a batch is evaluated does not keep the
\* other candidates from being evaluated and returned
C21_FailuresIsolated ==
    call.fn = "evaluate_candidates" =>
        \A c \in SoundCandidates :
            /\ call.ret.ok
            /\ \E i \in 1..Len(call.ret.evaluations) :
                  call.ret.evaluations[i].candidate_id = c.candidate_id

\* C23: when the job lists a mandatory or an optional skill, or the judgment
\* reports a matched skill, the skills_score of the evaluation is the one
\* calculate_skills_score gives, whatever skills_score the judgment carries
C23_SkillsScoreRecomputed ==
    (/\ call.fn = "evaluate_candidates"
     /\ call.ret.ok
     /\ Len(call.ret.evaluations) = 1)
    => LET e == call.ret.evaluations[1]
           mandatory_skills == normalize_list(call.jd.mandatory_skills)
           optional_skills == normalize_list(call.jd.optional_skills)
       IN  (mandatory_skills # <<>> \/ optional_skills # <<>> \/ e.matched_skills # <<>>)
           => e.scores.skills_score
                 \in Round2(calculate_skills_score(e.matched_skills, e.missing_skills,
                                                   mandatory_skills, optional_skills))

(***************************************************************************)
(* Properties of the configuration (under SpecLib)                         *)
(***************************************************************************)
\* C24: a configuration with a negative weight, with weights that do not sum
\* to 1.0, with a negative threshold or without strong_fit > partial_fit is
\* rejected when it is loaded, and no calculator is built from it
C24_MalformedConfigurationRejected ==
    call.fn = "Settings" =>
        LET w == call.configured.SCORING_WEIGHTS
            t == call.configured.RECOMMENDATION_THRESHOLDS
            malformed ==
                \/ w.skills < 0 \/ w.experience < 0 \/ w.education < 0
                \/ w.skills + w.experience + w.education # 100
                \/ t.strong_fit < 0 \/ t.partial_fit < 0
                \/ t.strong_fit <= t.partial_fit
        IN  malformed => (~call.settings.ok /\ "weights" \notin DOMAIN call.calculator)

(***************************************************************************)
(* Properties of the fallback judgments (under SpecLib)                    *)
(***************************************************************************)
\* C26: for a candidate whose context is empty the inference service is not
\* called, and the candidate's evaluation is the no-data judgment: no matched
\* skill, every mandatory skill missing, experience and education scores 0,
\* weaknesses and confidence notes saying that no resume data was found
C26_NoContextNoInference ==
    call.fn = "evaluate_candidates" =>
        \A c \in DOMAIN call.outcomes :
            call.outcomes[c].context = "" =>
                /\ c \notin Range(call.ret.llm_calls)
                /\ call.ret.ok =>
                      \A i \in 1..Len(call.ret.evaluations) :
                          LET e == call.ret.evaluations[i]
                          IN  e.candidate_id = c =>
                                 /\ e.matched_skills = <<>>
                                 /\ e.missing_skills = normalize_list(call.jd.mandatory_skills)
                                 /\ e.scores.experience_score = 0
                                 /\ e.scores.education_score = 0
                                 /\ e.weaknesses = <<"No resume data found">>
                                 /\ e.confidence_notes =
                                        "Unable to evaluate - no resume content retrieved"

C26_Witness ==
    /\ call.fn = "evaluate_candidates"
    /\ call.jd.title = "Python Developer"
    /\ Len(call.stored) = 2
    /\ call.outcomes["c1"].context = ""
    /\ call.outcomes["c2"].context # ""
    /\ call.ret.ok
    /\ call.ret.llm_calls = <<"c2">>
    /\ Len(call.ret.evaluations) = 2

(***************************************************************************)
(* Properties of the cache key (under SpecLib)                             *)
(***************************************************************************)
\* C28: two evaluate requests get the same cache key only if they name the
\* same job and the same set of candidates, where no candidate ids stands for
\* all candidates
C28_CacheKeyIdentifiesRequest ==
    call.fn = "cache_key" =>
        (call.ret[1] = call.ret[2] =>
            /\ call.first.job_id = call.second.job_id
            /\ Range(call.first.candidate_ids) = Range(call.second.candidate_ids))

\* the candidates of the last evaluate_candidates call whose judgment is a
\* fallback: nothing retrieved, or the inference call or its parsing failed
FallbackCandidates ==
    {c \in DOMAIN call.outcomes :
        \/ call.outcomes[c].context = ""
        \/ call.outcomes[c].llm.kind \in {"transport_error", "not_json"}}

\* C29: a candidate evaluated from a fallback judgment is a Weak Fit, with a
\* final score below the partial-fit threshold, whatever the mandatory and
\* optional skills of the job are
C29_FallbackIsWeakFit ==
    (call.fn = "evaluate_candidates" /\ call.ret.ok) =>
        \A i \in 1..Len(call.ret.evaluations) :
            LET e == call.ret.evaluations[i]
            IN  e.candidate_id \in FallbackCandidates =>
                   /\ e.overall_recommendation = "Weak Fit"
                   /\ e.scores.final_score < THRESHOLD_PARTIAL_FIT

\* a fallback with a positive score: mandatory skills and no optional skill,
\* so the recomputed skills score keeps the optional credit
C29_Witness ==
    /\ call.fn = "evaluate_candidates"
    /\ call.jd.mandatory_skills # <<>>
    /\ call.jd.optional_skills = <<>>
    /\ call.outcomes["c1"] = TransportError
    /\ call.ret.ok
    /\ Len(call.ret.evaluations) = 1
    /\ call.ret.evaluations[1].scores.skills_score = 1000
    /\ call.ret.evaluations[1].scores.final_score = 500
    /\ call.ret.evaluations[1].overall_recommendation = "Weak Fit"
====
